---- MODULE Spec2Model ----
(***************************************************************************)
(* A model of the synthesis-and-timing pipeline of the dubbing service:    *)
(* timeline assembly, bounded speed correction, voice matching, duration-  *)
(* budgeted translation and the top-level dub operation.                   *)
(*                                                                         *)
(* Each component has its own group of variables and its own               *)
(* specification (SpecCombine, SpecSpeed, ...); a specification keeps the  *)
(* other groups at their idle values.                                      *)
(*                                                                         *)
(* Time is counted in ticks of half a second (the granularity of the       *)
(* documented assembly scenario): a clip's length len(audio) and a         *)
(* segment's start are integers of that unit.                              *)
(***************************************************************************)
EXTENDS Integers, Sequences, FiniteSets, TLC

VARIABLES
    \* ---- TTSService._combine_audio_segments
    audio_segments,     \* the argument: clips {"audio", "start"} in caller order
    combined_audio,     \* the returned track: a sequence of pieces
    combine_pc,         \* "call" before the call, "returned" after it
    \* ---- _adjust_audio_speed of TTSService and of TimingAwareDubber
    audio_len,          \* len(audio), the synthesized duration d
    target_duration,    \* the target duration t
    speedup_raises,     \* whether audio.speedup raises in this call
    tts_adjusted,       \* length returned by TTSService._adjust_audio_speed
    tad_adjusted,       \* length returned by TimingAwareDubber._adjust_audio_speed
    \* ---- _calculate_target_word_count of Translator and of TimingAwareDubber
    segment_duration,   \* the segment's duration, in hundredths of a second
    fp_below,           \* the float product of a whole number falls just below it
    translator_words,   \* Translator._calculate_target_word_count(duration)
    dubber_words,       \* TimingAwareDubber._calculate_target_word_count(duration)
    \* ---- AIDubber._match_speakers_to_voices
    voice_profiles,     \* the argument: speaker id -> profile, in dict order
    available_voices,   \* the argument: the voice catalog
    match_result,       \* how the call ended and the mapping it returned
    match_pc,           \* "call" before the call, "returned" after it
    \* ---- duration-budgeted translation of TimingAwareDubber and Translator
    tr_segments,        \* the argument: the text of each segment
    openai_api_key,     \* whether OPENAI_API_KEY is configured
    gpt_answers,        \* what the generative backend answers, per segment
    mt_answers,         \* what the machine translation answers, per segment
    dubber_translated,  \* TimingAwareDubber._translate_with_timing_constraints
    translator_translated,\* Translator.translate_segments(timing_aware=True)
    \* ---- AIDubber.dub_with_ai_analysis
    timing_aware,       \* the argument timing_aware
    use_simple_fallback, \* the argument use_simple_fallback
    elevenlabs_api_key, \* whether ELEVENLABS_API_KEY is configured
    catalog,            \* the voices the voice service holds
    dub_pc,             \* the stage the call is about to run
    in_except,          \* the except clause of lines 91-98 has been entered
    fallback_runs,      \* how often _simple_dubbing_fallback has been started
    speaker_segments,   \* the SpeakerSegments of the pipeline that is running
    seen_voices,        \* what get_available_voices returned to the matcher
    synth_calls,        \* the calls made to the synthesis backend, in order
    dub_result,         \* how the call ended
    \* ---- AIDubber._align_whisper_with_pyannote
    diarization,        \* the argument: the turns of the diarization
    whisper_result,     \* the argument: the Whisper segments
    aligned_segments,   \* what _align_whisper_with_pyannote returned
    fallback_segments,  \* what _create_fallback_speaker_segments returned
    align_pc,           \* "call" before the alignment, "returned" after it
    heuristic_pc,       \* "call" before the heuristic, "returned" after it
    \* ---- AIDubber._generate_timing_aware_speech and the synthesis run
    synth_job,          \* the argument: job_id
    synth_segments,     \* the argument: the translated speaker segments
    synth_dicts,        \* segment_dicts, what the TTS service is handed
    synth_i,            \* the position of the worker's for loop
    synth_clips,        \* audio_segments of the running worker
    cache_files,        \* the files of every job's tts_cache directory
    backend_calls,      \* every text_to_speech.convert call made so far
    output_files,       \* per job: what dubbed_audio.mp3 holds, <<>> if absent
    synth_pc,           \* the worker: "call", "loop" or "done"
    synth_result,       \* what _generate_timing_aware_speech returned
    synth_runs,         \* the number of runs started so far
    \* ---- AIDubber._translate_with_context
    ctx_segments,       \* the argument: the speaker segments
    ctx_timing_aware,   \* the argument: timing_aware
    ctx_api_key,        \* whether OPENAI_API_KEY is set
    ctx_gpt,            \* the generative backend's answer for each segment
    ctx_translated,     \* what _translate_with_context returned
    \* ---- AIDubber._analyze_speakers_ai
    voiced_segments,    \* the argument: the segments, each with what the
                        \* feature extraction delivers for its audio
    analyzed_segments,  \* the returned segments: speaker and profile
    analyze_pc,         \* "call" before the analysis, "returned" after it
    \* ---- AIDubber.get_ai_analysis_summary
    summary_segments,   \* the argument: the speaker-tagged segments
    summary,            \* the returned dict
    summary_pc,         \* "call" before the call, "returned" after it
    \* ---- TimingAwareDubber._combine_audio_segments
    tad_audio_segments, \* the argument: clips {"audio", "start"}
    tad_combined_audio, \* the returned track: a sequence of pieces
    tad_combine_pc,     \* "call" before the call, "returned" after it
    \* ---- the cache key of _generate_speech_with_timing_sync
    key_segments,       \* two (text, voice_id) pairs, spelled in characters
    cache_keys,         \* the cache key computed for each of them
    key_pc,             \* "call" before the keys are computed, "returned" after
    \* ---- the jobs of process_dubbing_job
    jobs,               \* job_manager.jobs: per job id its record, or NoJob
    task_pc,            \* per job id: where its background task stands
    task_step           \* per job id: the step its task awaits, 0 before

combineVars == <<audio_segments, combined_audio, combine_pc>>

speedVars == <<audio_len, target_duration, speedup_raises, tts_adjusted,
               tad_adjusted>>

wordsVars == <<segment_duration, fp_below, translator_words, dubber_words>>

matchVars == <<voice_profiles, available_voices, match_result, match_pc>>

translateVars ==
    <<tr_segments, openai_api_key, gpt_answers, mt_answers, dubber_translated,
      translator_translated>>

dubVars ==
    <<timing_aware, use_simple_fallback, elevenlabs_api_key, catalog, dub_pc,
      in_except, fallback_runs, speaker_segments, seen_voices, synth_calls,
      dub_result>>

alignVars ==
    <<diarization, whisper_result, aligned_segments, fallback_segments, align_pc,
      heuristic_pc>>

synthVars == <<synth_job, synth_segments, synth_dicts, synth_i, synth_clips,
               cache_files, backend_calls, output_files, synth_pc,
               synth_result, synth_runs>>

contextVars == <<ctx_segments, ctx_timing_aware, ctx_api_key, ctx_gpt,
                 ctx_translated>>

analyzeVars == <<voiced_segments, analyzed_segments, analyze_pc>>

summaryVars == <<summary_segments, summary, summary_pc>>

tadCombineVars == <<tad_audio_segments, tad_combined_audio, tad_combine_pc>>

keyVars == <<key_segments, cache_keys, key_pc>>

jobVars == <<jobs, task_pc, task_step>>

vars == <<combineVars, speedVars, wordsVars, matchVars, translateVars,
          dubVars, alignVars, synthVars, contextVars, analyzeVars,
          summaryVars, tadCombineVars, keyVars, jobVars>>

\* ------------------------------------------------------------------ bounds

MaxClips == 3
MaxStart == 6
MaxDur == 3
MaxLen == 12
MaxTarget == 8
MaxDuration == 130
MaxSpeakers == 3
MaxVoices == 3
MaxTextLen == 2
MaxTrSegments == 2
MaxDubSegments == 2
MaxDubSpeakers == 2
MaxDubVoices == 2
MaxTime == 5
MaxTurns == 2
MaxAlignSegments == 2
MaxRuns == 2
MaxSynthSegments == 2
SynthSpacing == 4
MaxContextSegments == 2
MaxAnalyzeSegments == 4
MaxAnalyzeSpeakers == 2
MaxSummarySegments == 3
MaxSummarySpeakers == 2
MaxTadClips == 3
MaxKeyTextLen == 2
MaxVoiceIdLen == 2
MaxDubJobs == 2

\* A result that has not been computed yet.
NotYet == 0 - 1

\* ------------------------------------------------------------ small helpers

Max(a, b) == IF a >= b THEN a ELSE b

Min(a, b) == IF a <= b THEN a ELSE b

RECURSIVE SumLen(_, _)
\* Total length of the first n pieces of a track.
SumLen(track, n) ==
    IF n = 0 THEN 0 ELSE SumLen(track, n - 1) + track[n].len

\* ------------------------------------------------------------------------
\* TTSService._combine_audio_segments (tts_service.py 402-464)
\* ------------------------------------------------------------------------

\* AudioSegment.silent(duration=1000): one second, two ticks.
SilentFallbackLen == 2

\* A piece of silence appended to the track. clip = 0: no clip.
Silent(ms) == [kind |-> "silence", len |-> ms, clip |-> 0]

\* A clip appended to the track; clip is the clip's position in the argument.
Audio(segment) == [kind |-> "audio", len |-> segment.audio, clip |-> segment.id]

RECURSIVE InsertByStart(_, _)
\* Insert segment s into the start-sorted list after every element whose
\* start is not greater: sorted() is stable.
InsertByStart(sorted, s) ==
    IF sorted = <<>> THEN <<s>>
    ELSE IF Head(sorted).start <= s.start
         THEN <<Head(sorted)>> \o InsertByStart(Tail(sorted), s)
         ELSE <<s>> \o sorted

\* Mutant: the clips are taken in caller order.
SortedByStartNoSort(segments) == segments

RECURSIVE SortedByStart(_)
\* sorted(audio_segments, key=lambda x: x.get("start", 0))
SortedByStart(segments) ==
    IF segments = <<>> THEN <<>>
    ELSE InsertByStart(SortedByStart(SubSeq(segments, 1, Len(segments) - 1)),
                       segments[Len(segments)])

\* Mutant: silence is never inserted.
GapDurationNone(i, current_position, original_start) == 0

\* Mutant: a fixed gap between clips whatever the original start
\* (the rule of the older sequential combiner).
GapDurationFixed(i, current_position, original_start) ==
    IF i = 1 THEN 0 ELSE 1

\* The silence inserted before the i-th sorted clip (lines 430-450).
GapDuration(i, current_position, original_start) ==
    IF i = 1
    THEN IF original_start > 0 THEN original_start ELSE 0
    ELSE IF current_position < original_start
         THEN original_start - current_position
         ELSE 0

RECURSIVE CombineLoop(_, _, _, _)
\* The for loop of lines 416-457 from its i-th iteration on.
CombineLoop(sorted_segments, i, track, current_position) ==
    IF i > Len(sorted_segments) THEN track
    ELSE LET segment == sorted_segments[i]
             gap == GapDuration(i, current_position, segment.start)
             withGap == IF gap > 0 THEN Append(track, Silent(gap)) ELSE track
             position == IF gap > 0 THEN segment.start ELSE current_position
         IN  CombineLoop(sorted_segments, i + 1,
                         Append(withGap, Audio(segment)),
                         position + segment.audio)

\* Mutant: no placeholder for the empty list.
CombineAudioSegmentsNoPlaceholder(segments) ==
    CombineLoop(SortedByStart(segments), 1, <<>>, 0)

\* Lines 402-407: the empty list gives one second of silence.
CombineAudioSegments(segments) ==
    IF segments = <<>>
    THEN <<Silent(SilentFallbackLen)>>
    ELSE CombineLoop(SortedByStart(segments), 1, <<>>, 0)

\* The clip lists the synthesis loop can hand over: clip k carries id k.
ClipLists ==
    UNION {[1..n -> [start : 0..MaxStart, audio : 1..MaxDur]] : n \in 0..MaxClips}

WithIds(list) == [k \in 1..Len(list) |-> [id |-> k, start |-> list[k].start,
                                          audio |-> list[k].audio]]

\* The documented scenario: clips (0,2), (2,5), (6,7) s with synthesized
\* durations 2.5, 2.0 and 0.5 s, in ticks.
ScenarioClips ==
    <<[start |-> 0, audio |-> 5], [start |-> 4, audio |-> 4],
      [start |-> 12, audio |-> 1]>>

CombineInit ==
    /\ audio_segments \in {WithIds(l) : l \in ClipLists \cup {ScenarioClips}}
    /\ combined_audio = <<>>
    /\ combine_pc = "call"

CombineIdle ==
    /\ audio_segments = <<>>
    /\ combined_audio = <<>>
    /\ combine_pc = "idle"

Combine ==
    /\ combine_pc = "call"
    /\ combined_audio' = CombineAudioSegments(audio_segments)
    /\ combine_pc' = "returned"
    /\ UNCHANGED audio_segments

\* ------------------------------------------------------------------------
\* _adjust_audio_speed (tts_service.py 347-399, timing_aware_dubber.py 267-308)
\* ------------------------------------------------------------------------

\* max_speed_adjustment = 0.30, in percent.
TtsMaxSpeedAdjustment == 30
TadMaxSpeedAdjustment == 30

\* speed_ratio = current_duration / target_duration, kept as a fraction.
SpeedRatio(current_duration, target) == [num |-> current_duration, den |-> target]

\* ratio > pct/100 and ratio < pct/100.
RatioAbove(ratio, pct) == ratio.num * 100 > pct * ratio.den
RatioBelow(ratio, pct) == ratio.num * 100 < pct * ratio.den

\* Mutant: the ratio is not limited.
TtsLimitedRatioUnlimited(ratio) == ratio

\* Lines 365-372 of tts_service.py.
TtsLimitedRatio(ratio) ==
    IF RatioAbove(ratio, 100 + TtsMaxSpeedAdjustment)
    THEN [num |-> 100 + TtsMaxSpeedAdjustment, den |-> 100]
    ELSE IF RatioBelow(ratio, 100 - TtsMaxSpeedAdjustment)
         THEN [num |-> 100 - TtsMaxSpeedAdjustment, den |-> 100]
         ELSE ratio

\* Lines 287-293 of timing_aware_dubber.py.
TadLimitedRatio(ratio) ==
    IF RatioAbove(ratio, 100 + TadMaxSpeedAdjustment)
    THEN [num |-> 100 + TadMaxSpeedAdjustment, den |-> 100]
    ELSE IF RatioBelow(ratio, 100 - TadMaxSpeedAdjustment)
         THEN [num |-> 100 - TadMaxSpeedAdjustment, den |-> 100]
         ELSE ratio

\* audio.speedup(playback_speed=ratio): the clip played at that speed lasts
\* len / ratio.
Speedup(len, ratio) == (len * ratio.den) \div ratio.num

\* TTSService._adjust_audio_speed: the length of the clip it returns.
TtsAdjustAudioSpeed(len, target, raises) ==
    IF len <= 0 \/ target <= 0 THEN len
    ELSE LET speed_ratio == TtsLimitedRatio(SpeedRatio(len, target))
         IN  IF RatioAbove(speed_ratio, 100)
             THEN IF raises THEN len              \* except: return audio
                  ELSE Speedup(len, speed_ratio)
             ELSE len                             \* shorter or equal: as is

\* TimingAwareDubber._adjust_audio_speed: the length of the clip it returns.
TadAdjustAudioSpeed(len, target, raises) ==
    IF len <= 0 \/ target <= 0 THEN len
    ELSE LET speed_ratio == TadLimitedRatio(SpeedRatio(len, target))
         IN  IF speed_ratio.num # speed_ratio.den     \* speed_ratio != 1.0
             THEN IF raises THEN len              \* except: return audio
                  ELSE Speedup(len, speed_ratio)
             ELSE len

SpeedInit ==
    /\ audio_len \in 0..MaxLen
    /\ target_duration \in 0..MaxTarget
    /\ speedup_raises \in BOOLEAN
    /\ tts_adjusted = NotYet
    /\ tad_adjusted = NotYet

SpeedIdle ==
    /\ audio_len = 0
    /\ target_duration = 0
    /\ speedup_raises = FALSE
    /\ tts_adjusted = NotYet
    /\ tad_adjusted = NotYet

TtsAdjust ==
    /\ tts_adjusted = NotYet
    /\ tts_adjusted' = TtsAdjustAudioSpeed(audio_len, target_duration, speedup_raises)
    /\ UNCHANGED <<audio_len, target_duration, speedup_raises, tad_adjusted>>

TadAdjust ==
    /\ tad_adjusted = NotYet
    /\ tad_adjusted' = TadAdjustAudioSpeed(audio_len, target_duration, speedup_raises)
    /\ UNCHANGED <<audio_len, target_duration, speedup_raises, tts_adjusted>>

\* ------------------------------------------------------------------------
\* _calculate_target_word_count (translator.py 94-100,
\* timing_aware_dubber.py 101-110)
\* ------------------------------------------------------------------------

\* words_per_minute = 150.
TranslatorWordsPerMinute == 150
DubberWordsPerMinute == 150

\* One minute in hundredths of a second: duration / 60.0.
MinuteLen == 6000

\* Mutant: the product is rounded to the nearest integer.
TruncatedProductRounded(d, wpm, below) == (2 * d * wpm + MinuteLen) \div (2 * MinuteLen)

\* int(duration_minutes * words_per_minute) for a duration d >= 0: the
\* integer part of the product.  The product is a float: when it is a whole
\* number exactly, the float can fall just below it (2.8 / 60.0 * 150 is
\* 6.999...), and int() then yields one less.
TruncatedProduct(d, wpm, below) ==
    LET q == (d * wpm) \div MinuteLen
    IN  IF (d * wpm) % MinuteLen = 0 /\ q > 0 /\ below THEN q - 1 ELSE q

TranslatorTargetWordCount(d, below) ==
    Max(TruncatedProduct(d, TranslatorWordsPerMinute, below), 1)

DubberTargetWordCount(d, below) ==
    Max(TruncatedProduct(d, DubberWordsPerMinute, below), 1)

WordsInit ==
    /\ segment_duration \in 0..MaxDuration
    /\ fp_below \in BOOLEAN
    /\ translator_words = NotYet
    /\ dubber_words = NotYet

WordsIdle ==
    /\ segment_duration = 0
    /\ fp_below = FALSE
    /\ translator_words = NotYet
    /\ dubber_words = NotYet

TranslatorCalculate ==
    /\ translator_words = NotYet
    /\ translator_words' = TranslatorTargetWordCount(segment_duration, fp_below)
    /\ UNCHANGED <<segment_duration, fp_below, dubber_words>>

DubberCalculate ==
    /\ dubber_words = NotYet
    /\ dubber_words' = DubberTargetWordCount(segment_duration, fp_below)
    /\ UNCHANGED <<segment_duration, fp_below, translator_words>>

\* ------------------------------------------------------------------------
\* AIDubber._match_speakers_to_voices (ai_dubber.py 518-603) and
\* AIDubber._calculate_voice_match_score (ai_dubber.py 605-675)
\* ------------------------------------------------------------------------

\* The language the job dubs into.
TargetLanguage == "es"

\* str.lower() on the language codes of the model.
Lower(lang) == IF lang = "ES" THEN "es" ELSE IF lang = "EN" THEN "en" ELSE lang

\* The ids of the catalog's voices, by position.
VoiceIds == <<"ErXwobaYiN019PkySvjV", "EXAVITQu4vr4xnSDxMaL",
              "21m00Tcm4TlvDq8ikWAM", "VR6AewLTigWG4xSOukaG">>

SpeakerIds == <<"SPEAKER_00", "SPEAKER_01", "SPEAKER_02", "SPEAKER_03">>

\* voice.labels: absent, or the declared attributes ("" where not declared).
NoLabels == [present |-> FALSE, gender |-> "", age |-> "", description |-> "",
             accent |-> ""]

LabelSet ==
    {NoLabels,
     [present |-> TRUE, gender |-> "female", age |-> "young",
      description |-> "energetic", accent |-> "american"],
     [present |-> TRUE, gender |-> "male", age |-> "mature",
      description |-> "calm", accent |-> ""]}

\* voice.verified_languages: none, or the languages it declares.
LanguageSets == {{}, {"en"}, {"en", "ES"}}

\* Speaker profiles: pitch_mean and spectral_centroid_mean in Hz,
\* energy_mean and speaking_rate in hundredths.
ProfileSet ==
    {[pitch_mean |-> 200, energy_mean |-> 20, spectral_centroid_mean |-> 2500,
      speaking_rate |-> 15],
     [pitch_mean |-> 120, energy_mean |-> 8, spectral_centroid_mean |-> 1200,
      speaking_rate |-> 5],
     [pitch_mean |-> 0, energy_mean |-> 0, spectral_centroid_mean |-> 0,
      speaking_rate |-> 0]}

\* The score of a voice for a speaker profile, in half points.
VoiceMatchScore(profile, voice) ==
    LET labels == voice.labels
        pitch == profile.pitch_mean
        centroid == profile.spectral_centroid_mean
        female == labels.gender \in {"female", "woman"}
        male == labels.gender \in {"male", "man"}
        pitchScore ==
            IF pitch > 0
            THEN IF female /\ 150 < pitch /\ pitch < 250 THEN 6
                 ELSE IF male /\ 80 < pitch /\ pitch < 160 THEN 6
                 ELSE IF female /\ pitch < 150 THEN 2
                 ELSE IF male /\ pitch > 160 THEN 2
                 ELSE 0
            ELSE 0
        ageScore ==
            IF labels.age # "" /\ centroid > 0
            THEN IF labels.age = "young" /\ centroid > 2000 THEN 4
                 ELSE IF labels.age = "mature" /\ centroid < 1500 THEN 4
                 ELSE IF labels.age = "young" /\ centroid < 1500 THEN 1
                 ELSE IF labels.age = "mature" /\ centroid > 2000 THEN 1
                 ELSE 0
            ELSE 0
        styleScore ==
            IF profile.energy_mean > 10
            THEN IF labels.description = "energetic" THEN 3
                 ELSE IF labels.description = "calm" THEN 1
                 ELSE 0
            ELSE 0
        accentScore == IF labels.accent # "" THEN 1 ELSE 0
        labelScore ==
            IF labels.present
            THEN pitchScore + ageScore + styleScore + accentScore
            ELSE 0
        energyScore ==
            IF profile.energy_mean > 15 THEN 2
            ELSE IF profile.energy_mean > 5 THEN 1
            ELSE 0
        rateScore == IF profile.speaking_rate > 10 THEN 1 ELSE 0
    IN  labelScore + energyScore + rateScore

\* Lines 529-540: the voice declares the target language.
SupportsLanguage(voice, target_language) ==
    \E lang \in voice.verified_languages : Lower(lang) = Lower(target_language)

\* Mutant: every voice of the catalog is kept.
LanguageVoicesAll(voices, target_language) == voices

\* Lines 524-548: language_voices.
LanguageVoices(voices, target_language) ==
    SelectSeq(voices, LAMBDA v : SupportsLanguage(v, target_language))

RECURSIVE InsertByScore(_, _)
\* candidate_voices.sort(key=score, reverse=True) is stable: a candidate goes
\* after every candidate whose score is not lower.
InsertByScore(sorted, c) ==
    IF sorted = <<>> THEN <<c>>
    ELSE IF Head(sorted).score >= c.score
         THEN <<Head(sorted)>> \o InsertByScore(Tail(sorted), c)
         ELSE <<c>> \o sorted

\* Mutant: the candidates are left in catalog order.
SortedByScoreUnsorted(candidates) == candidates

RECURSIVE SortedByScore(_)
SortedByScore(candidates) ==
    IF candidates = <<>> THEN <<>>
    ELSE InsertByScore(SortedByScore(SubSeq(candidates, 1, Len(candidates) - 1)),
                       candidates[Len(candidates)])

\* Lines 569-575: candidate_voices, scored and sorted.
CandidateVoices(profile, language_voices) ==
    SortedByScore([k \in 1..Len(language_voices) |->
                      [voice |-> language_voices[k],
                       score |-> VoiceMatchScore(profile, language_voices[k])]])

\* Mutant: a chosen voice is not recorded as used.
MarkUsedNever(used_voices, voice_id) == used_voices

\* Line 582: used_voices.add(voice.voice_id).
MarkUsed(used_voices, voice_id) == used_voices \cup {voice_id}

EmptyMapping == [s \in {} |-> 0]

RECURSIVE MatchLoop(_, _, _, _, _)
\* The for loop of lines 564-597 from its i-th speaker on.
MatchLoop(profiles, i, language_voices, used_voices, mapping) ==
    IF i > Len(profiles) THEN [outcome |-> "ok", mapping |-> mapping]
    ELSE LET candidates == CandidateVoices(profiles[i].profile, language_voices)
             unused == {k \in 1..Len(candidates) :
                            candidates[k].voice.voice_id \notin used_voices}
             first == CHOOSE k \in unused : \A h \in unused : k <= h
         IN  IF unused # {}
             THEN MatchLoop(profiles, i + 1, language_voices,
                            MarkUsed(used_voices, candidates[first].voice.voice_id),
                            mapping @@ (profiles[i].speaker_id :>
                                [voice_id |-> candidates[first].voice.voice_id,
                                 match_score |-> candidates[first].score]))
             ELSE IF candidates # <<>>
             THEN MatchLoop(profiles, i + 1, language_voices, used_voices,
                            mapping @@ (profiles[i].speaker_id :>
                                [voice_id |-> candidates[1].voice.voice_id,
                                 match_score |-> candidates[1].score]))
             ELSE [outcome |-> "raised", mapping |-> EmptyMapping]

\* The body of the try block, lines 521-599.
MatchBody(profiles, voices, target_language) ==
    LET language_voices == LanguageVoices(voices, target_language)
    IN  IF language_voices = <<>>
        THEN [outcome |-> "raised", mapping |-> EmptyMapping]   \* line 557
        ELSE MatchLoop(profiles, 1, language_voices, {}, EmptyMapping)

\* The whole method: the except clause of lines 601-603 returns {}.
MatchSpeakersToVoices(profiles, voices, target_language) ==
    LET body == MatchBody(profiles, voices, target_language)
    IN  IF body.outcome = "raised"
        THEN [outcome |-> "returned", mapping |-> EmptyMapping]
        ELSE [outcome |-> "returned", mapping |-> body.mapping]

Catalogs(n) ==
    {[k \in 1..n |-> [voice_id |-> VoiceIds[k],
                       verified_languages |-> c[k].verified_languages,
                       labels |-> c[k].labels]] :
        c \in [1..n -> [verified_languages : LanguageSets, labels : LabelSet]]}

Profiles(n) ==
    {[k \in 1..n |-> [speaker_id |-> SpeakerIds[k], profile |-> p[k]]] :
        p \in [1..n -> ProfileSet]}

\* The only caller (lines 498-500) passes a catalog that is not empty
\* (lines 495-496).
MatchInit ==
    /\ available_voices \in UNION {Catalogs(n) : n \in 1..MaxVoices}
    /\ voice_profiles \in UNION {Profiles(n) : n \in 0..MaxSpeakers}
    /\ match_result = [outcome |-> "none", mapping |-> EmptyMapping]
    /\ match_pc = "call"

MatchIdle ==
    /\ available_voices = <<>>
    /\ voice_profiles = <<>>
    /\ match_result = [outcome |-> "none", mapping |-> EmptyMapping]
    /\ match_pc = "idle"

Match ==
    /\ match_pc = "call"
    /\ match_result' = MatchSpeakersToVoices(voice_profiles, available_voices,
                                             TargetLanguage)
    /\ match_pc' = "returned"
    /\ UNCHANGED <<voice_profiles, available_voices>>

\* ------------------------------------------------------------------------
\* Duration-budgeted translation: TimingAwareDubber (timing_aware_dubber.py
\* 53-99, 112-194) and Translator (translator.py 52-107, 109-196)
\* ------------------------------------------------------------------------

\* A text is a sequence of characters; " " is whitespace, "'" a quote.
RECURSIVE TextsOver(_, _)
TextsOver(chars, n) ==
    IF n = 0 THEN {<<>>}
    ELSE LET shorter == TextsOver(chars, n - 1)
         IN  shorter \cup {Append(t, c) : t \in {s \in shorter : Len(s) = n - 1},
                                          c \in chars}

RECURSIVE LStrip(_)
LStrip(text) ==
    IF text # <<>> /\ Head(text) = " " THEN LStrip(Tail(text)) ELSE text

RECURSIVE RStrip(_)
RStrip(text) ==
    IF text # <<>> /\ text[Len(text)] = " "
    THEN RStrip(SubSeq(text, 1, Len(text) - 1))
    ELSE text

\* str.strip()
Strip(text) == RStrip(LStrip(text))

\* re.sub(r'^["\']|["\']$', '', text): one quote off the front, then one
\* quote off the end of what follows.
StripQuotes(text) ==
    LET front == IF text # <<>> /\ Head(text) = "'" THEN Tail(text) ELSE text
    IN  IF front # <<>> /\ front[Len(front)] = "'"
        THEN SubSeq(front, 1, Len(front) - 1)
        ELSE front

\* What a backend answers to one request: it fails, or it delivers a text.
Failed == [ok |-> FALSE, content |-> <<>>]
Delivered(text) == [ok |-> TRUE, content |-> text]

\* A backend that never responds: the call neither returns nor raises.
NoAnswer == [ok |-> FALSE, content |-> <<>>, pending |-> TRUE]

\* The texts of the segments handed to the translation.
SegmentTexts == TextsOver({" ", "a"}, MaxTextLen)

\* message.content of the generative backend's answers.
GptAnswers ==
    {Failed, NoAnswer} \cup {Delivered(t) : t \in {<<>>, <<"a">>, <<"'", "'">>,
                                         <<" ", "a">>, <<"'", "a">>, <<" ">>}}

\* result.text of the machine-translation backend's answers.
MtAnswers == {Failed, NoAnswer, Delivered(<<"a">>)}

Raised == [outcome |-> "raised", segments |-> <<>>]

\* An await that never completes: the coroutine stays where it is.
Waiting == [outcome |-> "pending", segments |-> <<>>]

\* timing_aware_dubber.py 177-194: the await of line 185 has no timeout.
FallbackTranslation(text, mt) ==
    IF mt = NoAnswer THEN [outcome |-> "pending", text |-> <<>>]
    ELSE IF mt.ok THEN [outcome |-> "returned", text |-> mt.content]
    ELSE [outcome |-> "raised", text |-> <<>>]

\* timing_aware_dubber.py 112-175: the await of asyncio.to_thread (lines
\* 155-165) has no timeout.
GptTimingAwareTranslation(text, api_key, gpt, mt) ==
    IF ~api_key THEN FallbackTranslation(text, mt)
    ELSE IF gpt = NoAnswer THEN [outcome |-> "pending", text |-> <<>>]
    ELSE IF gpt.ok
         THEN [outcome |-> "returned", text |-> StripQuotes(Strip(gpt.content))]
         ELSE FallbackTranslation(text, mt)

RECURSIVE TranslateWithTimingConstraintsLoop(_, _, _, _, _, _)
\* The for loop of timing_aware_dubber.py 65-94 from its i-th segment on.
TranslateWithTimingConstraintsLoop(segments, i, api_key, gpt, mt, translated_segments) ==
    IF i > Len(segments)
    THEN [outcome |-> "returned", segments |-> translated_segments]
    ELSE LET original_text == Strip(segments[i])
             translated == GptTimingAwareTranslation(original_text, api_key,
                                                     gpt[i], mt[i])
         IN  IF original_text = <<>>
             THEN TranslateWithTimingConstraintsLoop(segments, i + 1, api_key,
                                                     gpt, mt, translated_segments)
             ELSE IF translated.outcome = "raised" THEN Raised
             ELSE IF translated.outcome = "pending" THEN Waiting
             ELSE TranslateWithTimingConstraintsLoop(segments, i + 1, api_key,
                      gpt, mt,
                      Append(translated_segments,
                             [segment |-> i, original_text |-> original_text,
                              translated_text |-> translated.text]))

\* timing_aware_dubber.py 53-99
TranslateWithTimingConstraints(segments, api_key, gpt, mt) ==
    TranslateWithTimingConstraintsLoop(segments, 1, api_key, gpt, mt, <<>>)

\* translator.py 109-196: the await of asyncio.to_thread (lines 176-186) has
\* no timeout.
GptTimingAwareTranslate(text, api_key, gpt) ==
    IF ~api_key THEN [outcome |-> "raised", text |-> <<>>]
    ELSE IF gpt = NoAnswer THEN [outcome |-> "pending", text |-> <<>>]
    ELSE IF gpt.ok
         THEN [outcome |-> "returned", text |-> StripQuotes(Strip(gpt.content))]
         ELSE [outcome |-> "raised", text |-> <<>>]

\* translator.py 102-107
TimingAwareTranslate(text, api_key, gpt) ==
    GptTimingAwareTranslate(text, api_key, gpt)

RECURSIVE TranslateSegmentsLoop(_, _, _, _, _)
\* The for loop of translator.py 57-87 from its i-th segment on, with
\* timing_aware=True.
TranslateSegmentsLoop(segments, i, api_key, gpt, translated_segments) ==
    IF i > Len(segments)
    THEN [outcome |-> "returned", segments |-> translated_segments]
    ELSE LET original_text == Strip(segments[i])
             translated == TimingAwareTranslate(original_text, api_key, gpt[i])
         IN  IF original_text = <<>>
             THEN TranslateSegmentsLoop(segments, i + 1, api_key, gpt,
                                        translated_segments)
             ELSE IF translated.outcome = "raised" THEN Raised
             ELSE IF translated.outcome = "pending" THEN Waiting
             ELSE TranslateSegmentsLoop(segments, i + 1, api_key, gpt,
                      Append(translated_segments,
                             [segment |-> i, original_text |-> original_text,
                              translated_text |-> translated.text]))

\* translator.py 52-92
TranslateSegments(segments, api_key, gpt) ==
    TranslateSegmentsLoop(segments, 1, api_key, gpt, <<>>)

NotTranslated == [outcome |-> "none", segments |-> <<>>]

TranslateInit ==
    /\ \E n \in 0..MaxTrSegments :
           /\ tr_segments \in [1..n -> SegmentTexts]
           /\ gpt_answers \in [1..n -> GptAnswers]
           /\ mt_answers \in [1..n -> MtAnswers]
    /\ openai_api_key \in BOOLEAN
    /\ dubber_translated = NotTranslated
    /\ translator_translated = NotTranslated

TranslateIdle ==
    /\ tr_segments = <<>>
    /\ gpt_answers = <<>>
    /\ mt_answers = <<>>
    /\ openai_api_key = FALSE
    /\ dubber_translated = [outcome |-> "idle", segments |-> <<>>]
    /\ translator_translated = [outcome |-> "idle", segments |-> <<>>]

\* TimingAwareDubber.translate_with_timing_constraints returns or raises,
\* unless one of its awaits never completes.
DubberTranslate ==
    /\ dubber_translated = NotTranslated
    /\ dubber_translated' = TranslateWithTimingConstraints(
                                tr_segments, openai_api_key, gpt_answers, mt_answers)
    /\ dubber_translated' # Waiting
    /\ UNCHANGED <<tr_segments, openai_api_key, gpt_answers, mt_answers,
                   translator_translated>>

\* Translator.translate_segments returns or raises, unless one of its awaits
\* never completes.
TranslatorTranslate ==
    /\ translator_translated = NotTranslated
    /\ translator_translated' = TranslateSegments(tr_segments, openai_api_key,
                                                  gpt_answers)
    /\ translator_translated' # Waiting
    /\ UNCHANGED <<tr_segments, openai_api_key, gpt_answers, mt_answers,
                   dubber_translated>>

\* ------------------------------------------------------------------------
\* AIDubber.dub_with_ai_analysis (ai_dubber.py 38-98) and the stages it
\* awaits, with TTSService.generate_speech (tts_service.py 19-94) and
\* TTSService.generate_speech_with_timing (tts_service.py 225-345)
\* ------------------------------------------------------------------------

\* None, for a voice id.
NoVoice == "None"

\* An empty dict of voice characteristics.
NoProfile == <<>>

\* dict.get(key, default) on a record.
Get(dict, key, default) == IF key \in DOMAIN dict THEN dict[key] ELSE default

\* tts_service.py 96-173 with gender "unknown": the hard-coded voice of the
\* language, default_voice_id for a language that is not in the mapping.
VoiceForLanguage(language) ==
    IF Lower(language) = "es" THEN "ErXwobaYiN019PkySvjV"
    ELSE IF Lower(language) = "en" THEN "21m00Tcm4TlvDq8ikWAM"
    ELSE "21m00Tcm4TlvDq8ikWAM"

\* The texts Whisper delivers for a segment, already stripped.
WhisperTexts == {<<>>, <<"a", "a">>}

\* What the generative backend answers in a dub run.
DubGptAnswers == {Failed, Delivered(<<>>), Delivered(<<"a">>)}

\* ai_dubber.py 16-28: a SpeakerSegment.
SpeakerSegment(text, speaker_id) ==
    [text |-> text, speaker_id |-> speaker_id,
     voice_characteristics |-> NoProfile, matched_voice_id |-> NoVoice]

\* ai_dubber.py 197-266: the Whisper segments, each with the speaker that
\* the diarization gives it.
AlignedSegments ==
    UNION {[1..n -> {SpeakerSegment(t, SpeakerIds[s]) :
                        t \in WhisperTexts, s \in 1..MaxDubSpeakers}] :
           n \in 0..MaxDubSegments}

\* ai_dubber.py 116-126: the segments of the simple fallback, one speaker id
\* per segment.
SimpleSegments ==
    UNION {{[i \in 1..n |-> SpeakerSegment(texts[i], SpeakerIds[i])] :
               texts \in [1..n -> WhisperTexts]} :
           n \in 0..MaxDubSegments}

RECURSIVE SpeakerOrder(_)
\* The keys of a dict filled segment by segment: the speaker ids in order of
\* first appearance.
SpeakerOrder(segs) ==
    IF segs = <<>> THEN <<>>
    ELSE LET rest == SpeakerOrder(SubSeq(segs, 1, Len(segs) - 1))
             last == segs[Len(segs)].speaker_id
         IN  IF \E k \in 1..Len(rest) : rest[k] = last THEN rest
             ELSE Append(rest, last)

\* The indexes of the segments whose text is not blank, in order.
NonBlankIndexes(segs) ==
    SelectSeq([i \in 1..Len(segs) |-> i], LAMBDA i : Strip(segs[i].text) # <<>>)

\* ai_dubber.py 320-387: every segment of a speaker gets the speaker's
\* averaged characteristics, when the analysis produced any.
AnalyzeSpeakers(segs, characteristics) ==
    [i \in 1..Len(segs) |->
        IF characteristics[segs[i].speaker_id] # NoProfile
        THEN [segs[i] EXCEPT !.voice_characteristics =
                                 characteristics[segs[i].speaker_id]]
        ELSE segs[i]]

\* ai_dubber.py 462-491: voice_profiles, one entry per speaker that has
\* characteristics (the segments of a speaker all carry the same ones, so
\* their mean is that profile).
VoiceProfilesOf(segs) ==
    LET order == SpeakerOrder(segs)
        with == SelectSeq(order, LAMBDA s :
                    \E i \in 1..Len(segs) :
                        /\ segs[i].speaker_id = s
                        /\ segs[i].voice_characteristics # NoProfile)
    IN  [k \in 1..Len(with) |->
            [speaker_id |-> with[k],
             profile |-> (LET i == CHOOSE i \in 1..Len(segs) :
                                       /\ segs[i].speaker_id = with[k]
                                       /\ segs[i].voice_characteristics # NoProfile
                          IN  segs[i].voice_characteristics)]]

\* ai_dubber.py 502-511: the matched voice goes to every segment of the
\* speaker.
AssignMatchedVoices(segs, mapping) ==
    [i \in 1..Len(segs) |->
        IF segs[i].speaker_id \in DOMAIN mapping
        THEN [segs[i] EXCEPT !.matched_voice_id = mapping[segs[i].speaker_id].voice_id]
        ELSE segs[i]]

\* ai_dubber.py 453-516 once the catalog has been downloaded.
MatchVoicesIntelligently(segs, voices, target_language) ==
    IF voices = <<>> THEN [outcome |-> "raised", segments |-> segs]
    ELSE [outcome |-> "returned",
          segments |-> AssignMatchedVoices(segs,
              MatchSpeakersToVoices(VoiceProfilesOf(segs), voices,
                                    target_language).mapping)]

\* ai_dubber.py 725 and 732: the corruption marker.
Marker == "Anterior:"

RECURSIVE TextLen(_)
\* len(text): an element is one character, the marker nine.
TextLen(text) ==
    IF text = <<>> THEN 0
    ELSE (IF Head(text) = Marker THEN 9 ELSE 1) + TextLen(Tail(text))

\* ai_dubber.py 725: "Anterior:" in text.
ContainsMarker(text) == \E k \in 1..Len(text) : text[k] = Marker

\* ai_dubber.py 732: text.startswith("Anterior:").
StartsWithMarker(text) == text # <<>> /\ Head(text) = Marker

\* translator.py 12-50: Translator.translate.
TranslateText(text, api_key, gpt) ==
    IF Strip(text) = <<>> THEN [outcome |-> "raised", text |-> <<>>]
    ELSE GptTimingAwareTranslate(text, api_key, gpt)

\* ai_dubber.py 677-745.  gpt[i] is the backend's answer for segment i.
TranslateWithContext(segs, aware, api_key, gpt) ==
    LET idx == NonBlankIndexes(segs)
        translated == TranslateSegments(
                          [k \in 1..Len(idx) |-> Strip(segs[idx[k]].text)],
                          api_key, [k \in 1..Len(idx) |-> gpt[idx[k]]])
        Regular(i) ==
            LET clean_text == Strip(segs[i].text)
                t == TranslateText(clean_text, api_key, gpt[i])
            IN  IF clean_text = <<>> THEN segs[i]                \* line 720
                ELSE IF TextLen(clean_text) < 2 \/ ContainsMarker(clean_text)
                THEN segs[i]                                     \* line 725
                ELSE IF t.outcome = "raised" THEN segs[i]        \* line 738
                ELSE IF t.text # <<>> /\ ~StartsWithMarker(t.text)
                THEN [segs[i] EXCEPT !.text = Strip(t.text)]     \* line 733
                ELSE segs[i]
    IN  IF aware
        THEN IF translated.outcome = "raised"
             THEN [outcome |-> "raised", segments |-> segs]
             ELSE [outcome |-> "returned",
                   segments |-> [i \in 1..Len(segs) |->
                       IF \E k \in 1..Len(idx) : idx[k] = i
                       THEN [segs[i] EXCEPT !.text =
                                translated.segments[
                                    CHOOSE k \in 1..Len(idx) : idx[k] = i
                                ].translated_text]
                       ELSE segs[i]]]
        ELSE [outcome |-> "returned",
              segments |-> [i \in 1..Len(segs) |-> Regular(i)]]

\* ai_dubber.py 824-838: the dicts handed to the synthesizer; segment stands
\* for the dict's start, end and original_duration.
SegmentDicts(segs) ==
    LET idx == NonBlankIndexes(segs)
    IN  [k \in 1..Len(idx) |->
            [segment |-> idx[k],
             translated_text |-> Strip(segs[idx[k]].text),
             speaker_id |-> segs[idx[k]].speaker_id]]

\* tts_service.py 281-283: f"{text}_{voice_id}".
CacheKey(text, voice_id) == text \o <<"_", voice_id>>

RECURSIVE SpeechWithTimingLoop(_, _, _, _, _, _)
\* The for loop of tts_service.py 266-333 from its i-th dict on; the
\* fail_at-th call of the run to the synthesis backend raises.
SpeechWithTimingLoop(dicts, i, target_language, tts_cache, calls, fail_at) ==
    IF i > Len(dicts) THEN [outcome |-> "returned", calls |-> calls]
    ELSE LET text == Get(dicts[i], "translated_text", <<>>)
             matched == Get(dicts[i], "matched_voice_id", NoVoice)
             voice_id == IF matched = NoVoice
                         THEN VoiceForLanguage(target_language)
                         ELSE matched
             cache_key == CacheKey(text, voice_id)
             call == [mode |-> "timing", segment |-> dicts[i].segment,
                      speaker_id |-> dicts[i].speaker_id, text |-> text,
                      voice_id |-> voice_id]
         IN  IF Strip(text) = <<>>
             THEN SpeechWithTimingLoop(dicts, i + 1, target_language,
                                       tts_cache, calls, fail_at)
             ELSE IF cache_key \in tts_cache
             THEN SpeechWithTimingLoop(dicts, i + 1, target_language,
                                       tts_cache, calls, fail_at)
             ELSE IF Len(calls) + 1 = fail_at
             THEN [outcome |-> "raised", calls |-> Append(calls, call)]
             ELSE SpeechWithTimingLoop(dicts, i + 1, target_language,
                                       tts_cache \cup {cache_key},
                                       Append(calls, call), fail_at)

\* tts_service.py 225-345: without an API key there is no client and the
\* first synthesis attempt raises before any call.
GenerateSpeechWithTiming(dicts, target_language, api_key, fail_at) ==
    IF dicts = <<>> \/ ~api_key THEN [outcome |-> "raised", calls |-> <<>>]
    ELSE SpeechWithTimingLoop(dicts, 1, target_language, {}, <<>>, fail_at)

\* ai_dubber.py 819-867: never raises; a failure yields the silent file.
GenerateTimingAwareSpeech(segs, target_language, api_key, fail_at) ==
    LET dicts == SegmentDicts(segs)
        speech == GenerateSpeechWithTiming(dicts, target_language, api_key,
                                           fail_at)
    IN  IF dicts = <<>>
        THEN [outcome |-> "returned", audio |-> "silence", calls |-> <<>>]
        ELSE IF speech.outcome = "raised"
        THEN [outcome |-> "returned", audio |-> "silence",
              calls |-> speech.calls]
        ELSE [outcome |-> "returned", audio |-> "dubbed",
              calls |-> speech.calls]

RECURSIVE JoinTexts(_)
\* " ".join(texts)
JoinTexts(texts) ==
    IF texts = <<>> THEN <<>>
    ELSE IF Len(texts) = 1 THEN texts[1]
    ELSE texts[1] \o <<" ">> \o JoinTexts(Tail(texts))

RECURSIVE RegularSpeechLoop(_, _, _, _, _, _, _)
\* The for loop of ai_dubber.py 778-808 from its i-th speaker on.
RegularSpeechLoop(speakers, i, segs, target_language, api_key, calls, fail_at) ==
    IF i > Len(speakers) THEN [outcome |-> "returned", calls |-> calls]
    ELSE LET idx == SelectSeq(NonBlankIndexes(segs),
                              LAMBDA j : segs[j].speaker_id = speakers[i])
             speaker_text == JoinTexts([k \in 1..Len(idx) |-> segs[idx[k]].text])
             matched_voice_id == segs[idx[1]].matched_voice_id
             voice_id == IF matched_voice_id = NoVoice
                         THEN VoiceForLanguage(target_language)
                         ELSE matched_voice_id
             call == [mode |-> "regular", segment |-> idx[1],
                      speaker_id |-> speakers[i], text |-> Strip(speaker_text),
                      voice_id |-> voice_id]
         IN  IF ~api_key THEN [outcome |-> "raised", calls |-> calls]
             ELSE IF Len(calls) + 1 = fail_at
             THEN [outcome |-> "raised", calls |-> Append(calls, call)]
             ELSE RegularSpeechLoop(speakers, i + 1, segs, target_language,
                                    api_key, Append(calls, call), fail_at)

\* ai_dubber.py 766-817 and 869-901: one call per speaker, then the files
\* are combined, which may fail and does fail when there is no file at all
\* (ffmpeg.concat of no input raises).
GenerateRegularAiSpeech(segs, target_language, api_key, fail_at, combine_ok) ==
    LET idx == NonBlankIndexes(segs)
        speakers == SpeakerOrder([k \in 1..Len(idx) |-> segs[idx[k]]])
        speech == RegularSpeechLoop(speakers, 1, segs, target_language,
                                    api_key, <<>>, fail_at)
    IN  IF speech.outcome = "raised" \/ ~combine_ok \/ speakers = <<>>
        THEN [outcome |-> "raised", audio |-> "none", calls |-> speech.calls]
        ELSE [outcome |-> "returned", audio |-> "combined",
              calls |-> speech.calls]

\* ai_dubber.py 747-764
GenerateAiSpeech(segs, target_language, aware, api_key, fail_at, combine_ok) ==
    IF aware
    THEN GenerateTimingAwareSpeech(segs, target_language, api_key, fail_at)
    ELSE GenerateRegularAiSpeech(segs, target_language, api_key, fail_at,
                                 combine_ok)

\* The catalogs of the voice service.
DubCatalogs == UNION {Catalogs(n) : n \in 0..MaxDubVoices}

NoResult == [outcome |-> "none", audio |-> "none"]

DubInit ==
    /\ timing_aware \in BOOLEAN
    /\ use_simple_fallback \in BOOLEAN
    /\ elevenlabs_api_key \in BOOLEAN
    /\ catalog \in DubCatalogs
    /\ dub_pc = "call"
    /\ in_except = FALSE
    /\ fallback_runs = 0
    /\ speaker_segments = <<>>
    /\ seen_voices = <<>>
    /\ synth_calls = <<>>
    /\ dub_result = NoResult

DubIdle ==
    /\ timing_aware = FALSE
    /\ use_simple_fallback = FALSE
    /\ elevenlabs_api_key = FALSE
    /\ catalog = <<>>
    /\ dub_pc = "idle"
    /\ in_except = FALSE
    /\ fallback_runs = 0
    /\ speaker_segments = <<>>
    /\ seen_voices = <<>>
    /\ synth_calls = <<>>
    /\ dub_result = NoResult

dubInputs == <<timing_aware, use_simple_fallback, elevenlabs_api_key, catalog>>

\* Mutant: no except clause, the error of a stage ends the run.
StageRaisesAtOnce ==
    /\ dub_pc' = "done"
    /\ dub_result' = [outcome |-> "raised", audio |-> "none"]
    /\ UNCHANGED <<in_except, fallback_runs>>

\* A stage raises.  Inside the try block (lines 40-89) the except clause of
\* lines 91-98 starts the simple fallback; inside that except clause the
\* error ends the run as "AI dubbing failed".
StageRaises ==
    IF ~in_except
    THEN /\ in_except' = TRUE
         /\ fallback_runs' = fallback_runs + 1
         /\ dub_pc' = "fb_transcribe"
         /\ UNCHANGED dub_result
    ELSE /\ dub_pc' = "done"
         /\ dub_result' = [outcome |-> "raised", audio |-> "none"]
         /\ UNCHANGED <<in_except, fallback_runs>>

StageReturns(next_pc) ==
    /\ dub_pc' = next_pc
    /\ UNCHANGED <<in_except, fallback_runs, dub_result>>

\* Lines 40-45: the call, up to its first stage.
DubCall ==
    /\ dub_pc = "call"
    /\ IF use_simple_fallback
       THEN /\ dub_pc' = "fb_transcribe"
            /\ fallback_runs' = fallback_runs + 1
       ELSE /\ dub_pc' = "diarize"
            /\ UNCHANGED fallback_runs
    /\ UNCHANGED <<dubInputs, in_except, speaker_segments, seen_voices,
                   synth_calls, dub_result>>

\* Lines 47-61: the diarization (token, pipeline) succeeds or raises.
Diarize ==
    /\ dub_pc = "diarize"
    /\ \E ok \in BOOLEAN :
           IF ok THEN StageReturns("transcribe") ELSE StageRaises
    /\ UNCHANGED <<dubInputs, speaker_segments, seen_voices, synth_calls>>

\* Lines 63-66, 146-172.
AiTranscribe ==
    /\ dub_pc = "transcribe"
    /\ \/ \E segs \in AlignedSegments :
              /\ speaker_segments' = segs
              /\ StageReturns("analyze")
       \/ StageRaises /\ UNCHANGED speaker_segments
    /\ UNCHANGED <<dubInputs, seen_voices, synth_calls>>

\* Lines 68-71, 320-387.
AnalyzeSpeakersAi ==
    /\ dub_pc = "analyze"
    /\ \/ \E characteristics \in
                 [{SpeakerIds[s] : s \in 1..MaxDubSpeakers} ->
                      ProfileSet \cup {NoProfile}] :
              /\ speaker_segments' = AnalyzeSpeakers(speaker_segments,
                                                     characteristics)
              /\ StageReturns("match")
       \/ StageRaises /\ UNCHANGED speaker_segments
    /\ UNCHANGED <<dubInputs, seen_voices, synth_calls>>

\* Lines 73-76, 453-516: get_available_voices (tts_service.py 175-198)
\* returns the catalog, or [] without an API key, on an error or a timeout.
MatchVoices ==
    /\ dub_pc = "match"
    /\ \E downloaded \in BOOLEAN :
           LET voices == IF elevenlabs_api_key /\ downloaded THEN catalog
                         ELSE <<>>
               matched == MatchVoicesIntelligently(speaker_segments, voices,
                                                   TargetLanguage)
           IN  /\ seen_voices' = voices
               /\ IF matched.outcome = "raised"
                  THEN StageRaises /\ UNCHANGED speaker_segments
                  ELSE /\ speaker_segments' = matched.segments
                       /\ StageReturns("translate")
    /\ UNCHANGED <<dubInputs, synth_calls>>

\* Lines 102-126: the transcription of the simple fallback.
SimpleTranscribe ==
    /\ dub_pc = "fb_transcribe"
    /\ \/ \E segs \in SimpleSegments :
              /\ speaker_segments' = segs
              /\ StageReturns("fb_translate")
       \/ StageRaises /\ UNCHANGED speaker_segments
    /\ UNCHANGED <<dubInputs, seen_voices, synth_calls>>

\* Lines 78-81 and 128-131: _translate_with_context.
Translate ==
    /\ dub_pc \in {"translate", "fb_translate"}
    /\ \E api_key \in BOOLEAN,
          gpt \in [1..Len(speaker_segments) -> DubGptAnswers] :
           LET translated == TranslateWithContext(speaker_segments,
                                                  timing_aware, api_key, gpt)
           IN  IF translated.outcome = "raised"
               THEN StageRaises /\ UNCHANGED speaker_segments
               ELSE /\ speaker_segments' = translated.segments
                    /\ StageReturns(IF dub_pc = "translate" THEN "speech"
                                    ELSE "fb_speech")
    /\ UNCHANGED <<dubInputs, seen_voices, synth_calls>>

\* Lines 83-88 and 133-138: _generate_ai_speech, then the return.
Speech ==
    /\ dub_pc \in {"speech", "fb_speech"}
    /\ \E fail_at \in 0..MaxDubSegments, combine_ok \in BOOLEAN :
           LET speech == GenerateAiSpeech(speaker_segments, TargetLanguage,
                                          timing_aware, elevenlabs_api_key,
                                          fail_at, combine_ok)
           IN  /\ synth_calls' = synth_calls \o speech.calls
               /\ IF speech.outcome = "raised"
                  THEN StageRaises
                  ELSE /\ dub_pc' = "done"
                       /\ dub_result' = [outcome |-> "returned",
                                         audio |-> speech.audio]
                       /\ UNCHANGED <<in_except, fallback_runs>>
    /\ UNCHANGED <<dubInputs, speaker_segments, seen_voices>>

DubStep ==
    \/ DubCall
    \/ Diarize
    \/ AiTranscribe
    \/ AnalyzeSpeakersAi
    \/ MatchVoices
    \/ SimpleTranscribe
    \/ Translate
    \/ Speech

\* ------------------------------------------------------------------------
\* AIDubber._align_whisper_with_pyannote (ai_dubber.py 197-266) and
\* AIDubber._create_fallback_speaker_segments (ai_dubber.py 268-300).
\* Times are whole seconds; a midpoint is kept doubled so that it stays whole.
\* ------------------------------------------------------------------------

\* Line 224: the label of a segment that no turn claims.
DefaultSpeaker == "SPEAKER_00"

\* Line 282: the gap, in seconds, beyond which the heuristic switches speaker.
GapThreshold == 2

\* Line 283: the number of speakers the heuristic alternates between.
SpeakerPool == 2

Abs(x) == IF x >= 0 THEN x ELSE 0 - x

\* Lines 203-214: speaker_timeline, sorted by start (the sort is stable).
SpeakerTimeline(turns) == SortedByStart(turns)

\* Line 221, doubled: segment_start + segment_end.
Midpoint2(segment) == segment.start + segment.end

\* Line 227: speaker_turn['start'] <= segment_mid <= speaker_turn['end'].
TurnContains(turn, mid2) == 2 * turn.start <= mid2 /\ mid2 <= 2 * turn.end

\* Lines 226-229: the first turn of the timeline that contains the midpoint,
\* 0 if there is none.
FirstContaining(timeline, mid2) ==
    LET hits == {k \in 1..Len(timeline) : TurnContains(timeline[k], mid2)}
    IN  IF hits = {} THEN 0 ELSE CHOOSE k \in hits : \A h \in hits : k <= h

\* Line 234, doubled: min(abs(start - mid), abs(end - mid)).
TurnDistance2(turn, mid2) ==
    Min(Abs(2 * turn.start - mid2), Abs(2 * turn.end - mid2))

\* Lines 233-234: min() returns the first turn of least distance.
ClosestTurn(timeline, mid2) ==
    CHOOSE k \in 1..Len(timeline) :
        /\ \A h \in 1..Len(timeline) :
               TurnDistance2(timeline[k], mid2) <= TurnDistance2(timeline[h], mid2)
        /\ \A h \in 1..(k - 1) :
               TurnDistance2(timeline[h], mid2) > TurnDistance2(timeline[k], mid2)

\* Lines 224-235: assigned_speaker of one segment.
AssignedSpeaker(timeline, segment) ==
    LET mid2 == Midpoint2(segment)
        k == FirstContaining(timeline, mid2)
        assigned_speaker == IF k # 0 THEN timeline[k].speaker ELSE DefaultSpeaker
    IN  IF assigned_speaker = DefaultSpeaker /\ timeline # <<>>
        THEN timeline[ClosestTurn(timeline, mid2)].speaker
        ELSE assigned_speaker

\* Mutant: a segment that no turn contains is left out.
AlignContainedOnly(whisper_segments, turns) ==
    LET kept == SelectSeq(whisper_segments, LAMBDA s :
                    FirstContaining(SpeakerTimeline(turns), Midpoint2(s)) # 0)
    IN  [i \in 1..Len(kept) |->
            [start_time |-> kept[i].start, end_time |-> kept[i].end,
             speaker_id |-> AssignedSpeaker(SpeakerTimeline(turns), kept[i])]]

\* Lines 197-250: one SpeakerSegment per Whisper segment.
AlignWhisperWithPyannote(whisper_segments, turns) ==
    [i \in 1..Len(whisper_segments) |->
        [start_time |-> whisper_segments[i].start,
         end_time |-> whisper_segments[i].end,
         speaker_id |-> AssignedSpeaker(SpeakerTimeline(turns),
                                        whisper_segments[i])]]

RECURSIVE CurrentSpeaker(_, _)
\* Lines 275-283: current_speaker when segment i is reached.
CurrentSpeaker(whisper_segments, i) ==
    IF i = 1 THEN 0
    ELSE LET before == CurrentSpeaker(whisper_segments, i - 1)
         IN  IF whisper_segments[i].start - whisper_segments[i - 1].end
                    > GapThreshold
             THEN (before + 1) % SpeakerPool
             ELSE before

\* Lines 268-300: the duration-gap heuristic.
CreateFallbackSpeakerSegments(whisper_segments) ==
    [i \in 1..Len(whisper_segments) |->
        [start_time |-> whisper_segments[i].start,
         end_time |-> whisper_segments[i].end,
         speaker_id |-> SpeakerIds[CurrentSpeaker(whisper_segments, i) + 1]]]

\* The intervals a turn or a segment can span.
Intervals == {iv \in [start : 0..MaxTime, end : 0..MaxTime] : iv.start < iv.end}

\* The labels of a diarization.
TurnLabels == {SpeakerIds[1], SpeakerIds[2]}

\* The diarizations: any turns, overlapping or not, in any order.
Diarizations ==
    UNION {[1..n -> {[start |-> iv.start, end |-> iv.end, speaker |-> l] :
                        iv \in Intervals, l \in TurnLabels}] :
           n \in 0..MaxTurns}

\* The Whisper segments: one after the other.
WhisperSegments ==
    UNION {{w \in [1..n -> Intervals] :
               \A i \in 1..(n - 1) : w[i].end <= w[i + 1].start} :
           n \in 0..MaxAlignSegments}

AlignInit ==
    /\ diarization \in Diarizations
    /\ whisper_result \in WhisperSegments
    /\ aligned_segments = <<>>
    /\ fallback_segments = <<>>
    /\ align_pc = "call"
    /\ heuristic_pc = "call"

AlignIdle ==
    /\ diarization = <<>>
    /\ whisper_result = <<>>
    /\ aligned_segments = <<>>
    /\ fallback_segments = <<>>
    /\ align_pc = "idle"
    /\ heuristic_pc = "idle"

Align ==
    /\ align_pc = "call"
    /\ aligned_segments' = AlignWhisperWithPyannote(whisper_result, diarization)
    /\ align_pc' = "returned"
    /\ UNCHANGED <<diarization, whisper_result, fallback_segments, heuristic_pc>>

CreateFallback ==
    /\ heuristic_pc = "call"
    /\ fallback_segments' = CreateFallbackSpeakerSegments(whisper_result)
    /\ heuristic_pc' = "returned"
    /\ UNCHANGED <<diarization, whisper_result, aligned_segments, align_pc>>

\* ------------------------------------------------------------------------
\* AIDubber._generate_timing_aware_speech (ai_dubber.py 819-867),
\* TTSService.generate_speech_with_timing (tts_service.py 225-249) and its
\* worker TTSService._generate_speech_with_timing_sync (tts_service.py
\* 251-345), one loop iteration per step. Lengths are half-second ticks.
\* The synthesis client is configured; the run without an API key is part of
\* the dub operation above.
\* ------------------------------------------------------------------------

\* The job ids of the runs.
JobIds == {"job1", "job2"}

\* The translated texts of the segments; " " is blank.
SynthTexts == {<<" ">>, <<"a">>, <<"b">>}

\* end_time - start_time of a segment, in ticks.
SynthDurations == {1, 3}

\* What text_to_speech.convert delivers: the length of the audio in ticks,
\* NoAudio when the call raises or delivers nothing that decodes.
NoAudio == 0

BackendAnswers == {NoAudio, 2, 4}

\* The speaker segments of a run: the k-th one starts SynthSpacing ticks
\* after the one before it and ends after it starts.
SynthSegmentLists ==
    UNION {[1..n -> [text : SynthTexts, duration : SynthDurations]] :
           n \in 0..MaxSynthSegments}

SynthSegment(list, k) ==
    [text |-> list[k].text, start_time |-> SynthSpacing * (k - 1),
     end_time |-> SynthSpacing * (k - 1) + list[k].duration,
     speaker_id |-> DefaultSpeaker]

RECURSIVE SynthSegmentDicts(_)
\* ai_dubber.py 824-838: one dict per segment whose text is not blank. The
\* segments end after they start, so line 830 keeps end_time. No dict has a
\* matched_voice_id key.
SynthSegmentDicts(segments) ==
    IF segments = <<>> THEN <<>>
    ELSE LET segment == Head(segments)
             rest == SynthSegmentDicts(Tail(segments))
         IN  IF Strip(segment.text) # <<>>
             THEN <<[start |-> Max(0, segment.start_time),
                     end |-> segment.end_time,
                     translated_text |-> Strip(segment.text),
                     original_duration |->
                         segment.end_time - Max(0, segment.start_time),
                     speaker_id |-> segment.speaker_id]>> \o rest
             ELSE rest

\* ai_dubber.py 843-848 and 861-867: AudioSegment.silent(duration=1000).
SilentTrack == <<Silent(SilentFallbackLen)>>

\* Mutant: the exception of the synthesis reaches the caller.
OnSynthesisFailureRaises == [outcome |-> "raised", audio |-> <<>>]

\* ai_dubber.py 859-867: the except clause writes the silent track and
\* returns its path.
OnSynthesisFailure == [outcome |-> "returned", audio |-> SilentTrack]

\* tts_service.py 232 and 259, 283: the cache file of a key, in the tts_cache
\* directory of the job's output directory.
CacheFile(job_id, cache_key) == <<"outputs", job_id, "tts_cache", cache_key>>

\* Mutant: no cache file is ever found.
ExistsNever(files, cache_file) == FALSE

\* tts_service.py 286: os.path.exists(cache_file).
Exists(files, cache_file) == \E f \in files : f.file = cache_file

\* tts_service.py 288: AudioSegment.from_mp3(cache_file).
FromFile(files, cache_file) ==
    (CHOOSE f \in files : f.file = cache_file).audio

\* Mutant: the cache file is written after the adjustment.
ProcessedAudioAdjustedCache(segment_audio, original_duration, raises) ==
    LET adjusted == IF original_duration > 0
                    THEN TtsAdjustAudioSpeed(segment_audio,
                                             original_duration, raises)
                    ELSE segment_audio
    IN  [cached |-> adjusted, clip |-> adjusted]

\* tts_service.py 311-326: of the audio the backend delivered, what is
\* exported to the cache file (line 314) and what is appended as the clip
\* (lines 321-329, adjust_speed is True).
ProcessedAudio(segment_audio, original_duration, raises) ==
    [cached |-> segment_audio,
     clip |-> IF original_duration > 0
              THEN TtsAdjustAudioSpeed(segment_audio, original_duration,
                                       raises)
              ELSE segment_audio]

\* tts_service.py 329-333: the clip appended for a dict; raw is its audio
\* before the adjustment, hit whether it came from the cache.
SynthClip(dict, i, voice_id, raw, processed, hit) ==
    [start |-> dict.start, audio |-> processed.clip, raw |-> raw,
     hit |-> hit, segment |-> i, text |-> dict.translated_text,
     voice_id |-> voice_id]

NoSynthResult == [outcome |-> "none", audio |-> <<>>]

SynthInit ==
    /\ synth_job = "job1"
    /\ synth_segments = <<>>
    /\ synth_dicts = <<>>
    /\ synth_i = 0
    /\ synth_clips = <<>>
    /\ cache_files = {}
    /\ backend_calls = <<>>
    /\ output_files = [j \in JobIds |-> <<>>]
    /\ synth_pc = "call"
    /\ synth_result = NoSynthResult
    /\ synth_runs = 0

SynthIdle ==
    /\ synth_job = "job1"
    /\ synth_segments = <<>>
    /\ synth_dicts = <<>>
    /\ synth_i = 0
    /\ synth_clips = <<>>
    /\ cache_files = {}
    /\ backend_calls = <<>>
    /\ output_files = [j \in JobIds |-> <<>>]
    /\ synth_pc = "idle"
    /\ synth_result = NoSynthResult
    /\ synth_runs = 0

\* ai_dubber.py 819-856 up to the await: a run starts once the run before it
\* has returned and its worker has ended.
TimingAwareSpeechCall ==
    /\ synth_pc \in {"call", "done"}
    /\ synth_pc = "done" => synth_result.outcome # "none"
    /\ synth_runs < MaxRuns
    /\ \E job_id \in JobIds, list \in SynthSegmentLists :
         LET segments == [k \in 1..Len(list) |-> SynthSegment(list, k)]
             segment_dicts == SynthSegmentDicts(segments)
         IN  /\ synth_job' = job_id
             /\ synth_segments' = segments
             /\ synth_dicts' = segment_dicts
             /\ synth_runs' = synth_runs + 1
             /\ synth_i' = 1
             /\ synth_clips' = <<>>
             /\ IF segment_dicts = <<>>
                THEN \* lines 841-848: no dict, the silent track
                     /\ synth_pc' = "done"
                     /\ synth_result' =
                            [outcome |-> "returned", audio |-> SilentTrack]
                     /\ output_files' =
                            [output_files EXCEPT ![job_id] = SilentTrack]
                ELSE /\ synth_pc' = "loop"
                     /\ synth_result' = NoSynthResult
                     /\ UNCHANGED output_files
    /\ UNCHANGED <<cache_files, backend_calls>>

\* tts_service.py 266-333: one iteration of the worker's loop. An exception
\* ends the worker; the caller, if it still waits, catches it (lines 343-344,
\* 248-249, ai_dubber.py 859-867).
SynthesizeSegment ==
    /\ synth_pc = "loop"
    /\ synth_i <= Len(synth_dicts)
    /\ \E answer \in BackendAnswers, raises \in BOOLEAN :
         LET segment == synth_dicts[synth_i]
             text == Get(segment, "translated_text", <<>>)
             original_duration == Get(segment, "original_duration", 0)
             matched == Get(segment, "matched_voice_id", NoVoice)
             voice_id == IF matched = NoVoice
                         THEN VoiceForLanguage(TargetLanguage)
                         ELSE matched
             cache_file == CacheFile(synth_job, CacheKey(text, voice_id))
             hit == Exists(cache_files, cache_file)
             segment_audio == IF hit THEN FromFile(cache_files, cache_file)
                              ELSE answer
             processed == ProcessedAudio(segment_audio, original_duration,
                                         raises)
             call == [run |-> synth_runs, job_id |-> synth_job,
                      segment |-> synth_i, text |-> text,
                      voice_id |-> voice_id, audio |-> answer]
         IN  IF Strip(text) = <<>>
             THEN \* lines 270-271: continue
                  /\ synth_i' = synth_i + 1
                  /\ UNCHANGED <<synth_clips, cache_files, backend_calls,
                                 output_files, synth_pc, synth_result>>
             ELSE IF ~hit /\ answer = NoAudio
             THEN \* lines 292-311 raise
                  /\ backend_calls' = Append(backend_calls, call)
                  /\ synth_pc' = "done"
                  /\ IF synth_result.outcome = "none"
                     THEN /\ synth_result' = OnSynthesisFailure
                          /\ output_files' =
                                 [output_files EXCEPT ![synth_job] =
                                      SilentTrack]
                     ELSE UNCHANGED <<synth_result, output_files>>
                  /\ UNCHANGED <<synth_i, synth_clips, cache_files>>
             ELSE /\ backend_calls' = IF hit THEN backend_calls
                                      ELSE Append(backend_calls, call)
                  /\ cache_files' =
                         IF hit THEN cache_files
                         ELSE cache_files \cup
                              {[file |-> cache_file,
                                audio |-> processed.cached]}
                  /\ synth_clips' =
                         Append(synth_clips,
                                SynthClip(segment, synth_i, voice_id,
                                          segment_audio, processed, hit))
                  /\ synth_i' = synth_i + 1
                  /\ UNCHANGED <<output_files, synth_pc, synth_result>>
    /\ UNCHANGED <<synth_job, synth_segments, synth_dicts, synth_runs>>

\* tts_service.py 335-341: the worker combines the clips and exports the
\* track; the caller, if it still waits, returns its path.
CombineAndExport ==
    /\ synth_pc = "loop"
    /\ synth_i > Len(synth_dicts)
    /\ LET track == CombineAudioSegments(WithIds(synth_clips))
       IN  /\ output_files' =
                  [output_files EXCEPT ![synth_job] = track]
           /\ synth_result' =
                  IF synth_result.outcome = "none"
                  THEN [outcome |-> "returned", audio |-> track]
                  ELSE synth_result
    /\ synth_pc' = "done"
    /\ UNCHANGED <<synth_job, synth_segments, synth_dicts, synth_i,
                   synth_clips, cache_files, backend_calls, synth_runs>>

\* tts_service.py 238-246 and ai_dubber.py 859-867: wait_for gives up after
\* 120 seconds while the worker is still in its loop; the worker is not
\* stopped.
SynthesisTimeout ==
    /\ synth_pc = "loop"
    /\ synth_result.outcome = "none"
    /\ synth_result' = OnSynthesisFailure
    /\ output_files' = [output_files EXCEPT ![synth_job] = SilentTrack]
    /\ UNCHANGED <<synth_job, synth_segments, synth_dicts, synth_i,
                   synth_clips, cache_files, backend_calls, synth_pc,
                   synth_runs>>

\* ------------------------------------------------------------------------
\* AIDubber._translate_with_context (ai_dubber.py 677-745) on texts that can
\* carry the corruption marker. The marker is one element of a text and
\* counts for its nine characters.
\* ------------------------------------------------------------------------

\* The texts of the segments handed to _translate_with_context.
ContextTexts == {<<>>, <<"a">>, <<"a", "a">>, <<Marker, "a">>}

\* message.content of the generative backend's answers.
ContextAnswers ==
    {Failed} \cup {Delivered(t) : t \in {<<>>, <<"a">>, <<"a", "b">>,
                                         <<Marker, "a">>, <<"a", Marker>>}}

ContextInit ==
    /\ \E n \in 0..MaxContextSegments :
           /\ ctx_segments \in
                  [1..n -> {SpeakerSegment(t, DefaultSpeaker) :
                               t \in ContextTexts}]
           /\ ctx_gpt \in [1..n -> ContextAnswers]
    /\ ctx_timing_aware \in BOOLEAN
    /\ ctx_api_key \in BOOLEAN
    /\ ctx_translated = NotTranslated

ContextIdle ==
    /\ ctx_segments = <<>>
    /\ ctx_gpt = <<>>
    /\ ctx_timing_aware = FALSE
    /\ ctx_api_key = FALSE
    /\ ctx_translated = [outcome |-> "idle", segments |-> <<>>]

TranslateContext ==
    /\ ctx_translated = NotTranslated
    /\ ctx_translated' = TranslateWithContext(ctx_segments, ctx_timing_aware,
                                              ctx_api_key, ctx_gpt)
    /\ UNCHANGED <<ctx_segments, ctx_timing_aware, ctx_api_key, ctx_gpt>>

\* ------------------------------------------------------------------------
\* AIDubber._analyze_speakers_ai (ai_dubber.py 320-387). Durations are
\* tenths of a second; a mean is kept as the pair of its sum and its count.
\* ------------------------------------------------------------------------

\* Line 338: speaker_segments[:3].
AnalysisSample == 3

\* Line 350: a segment shorter than 0.5 s is not analyzed.
MinAnalysisDuration == 5

\* What _analyze_voice_characteristics (lines 389-425) delivers for a
\* segment: mfcc_mean always, at times below zero; pitch_mean only when a
\* pitch was tracked (lines 402-405); the empty dict when it failed.
Characteristics ==
    {NoProfile, [mfcc_mean |-> 0 - 2, pitch_mean |-> 2], [mfcc_mean |-> 2],
     [mfcc_mean |-> 4, pitch_mean |-> 4]}

\* The segments handed to the analysis.
VoicedSegments ==
    UNION {[1..n -> [speaker_id : {SpeakerIds[s] : s \in 1..MaxAnalyzeSpeakers},
                     duration : {MinAnalysisDuration - 1, MinAnalysisDuration},
                     extracted : Characteristics]] :
           n \in 0..MaxAnalyzeSegments}

\* Lines 329-331: the indexes of a speaker's segments, in order.
SpeakerGroup(segments, speaker_id) ==
    SelectSeq([i \in 1..Len(segments) |-> i],
              LAMBDA i : segments[i].speaker_id = speaker_id)

\* Lines 338-359: all_characteristics, what was extracted from the first
\* three segments of the group that are long enough.
AllCharacteristics(segments, group) ==
    LET analysis_segments ==
            SubSeq(group, 1, Min(AnalysisSample, Len(group)))
        analyzed == SelectSeq(analysis_segments, LAMBDA i :
                        segments[i].duration >= MinAnalysisDuration)
    IN  [k \in 1..Len(analyzed) |-> segments[analyzed[k]].extracted]

RECURSIVE SumSeq(_)
SumSeq(values) ==
    IF values = <<>> THEN 0 ELSE Head(values) + SumSeq(Tail(values))

\* Lines 369-374: the average of a key over the values above zero, 0 when
\* there is none.
AvgOfKey(all_characteristics, key) ==
    LET got == [k \in 1..Len(all_characteristics) |->
                   Get(all_characteristics[k], key, 0)]
        values == SelectSeq(got, LAMBDA v : v > 0)
    IN  IF values # <<>> THEN [sum |-> SumSeq(values), count |-> Len(values)]
        ELSE [sum |-> 0, count |-> 1]

\* Lines 367-374: avg_characteristics, over the keys of the first sample.
AvgCharacteristics(all_characteristics) ==
    [key \in DOMAIN all_characteristics[1] |->
        AvgOfKey(all_characteristics, key)]

\* Lines 333-382: the segments with their profile; a speaker without a sample
\* keeps the voice_characteristics its segments came with (none).
AnalyzeSpeakersAiResult(segments) ==
    [i \in 1..Len(segments) |->
        LET all_characteristics ==
                AllCharacteristics(segments,
                    SpeakerGroup(segments, segments[i].speaker_id))
        IN  [speaker_id |-> segments[i].speaker_id,
             voice_characteristics |->
                 IF all_characteristics # <<>>
                 THEN AvgCharacteristics(all_characteristics)
                 ELSE NoProfile]]

AnalyzeInit ==
    /\ voiced_segments \in VoicedSegments
    /\ analyzed_segments = <<>>
    /\ analyze_pc = "call"

AnalyzeIdle ==
    /\ voiced_segments = <<>>
    /\ analyzed_segments = <<>>
    /\ analyze_pc = "idle"

AnalyzeVoices ==
    /\ analyze_pc = "call"
    /\ analyzed_segments' = AnalyzeSpeakersAiResult(voiced_segments)
    /\ analyze_pc' = "returned"
    /\ UNCHANGED voiced_segments

\* ------------------------------------------------------------------------
\* AIDubber.get_ai_analysis_summary (ai_dubber.py 1002-1034) on
\* SpeakerSegment objects (ai_dubber.py 16-28). Times are whole seconds.
\* ------------------------------------------------------------------------

\* The segments handed to the summary: the fields of a SpeakerSegment that
\* the summary reads and that the dataclass has.
SummarySegments ==
    UNION {[1..n -> [speaker_id : {SpeakerIds[s] : s \in 1..MaxSummarySpeakers},
                     start_time : 0..1, end_time : 2..3,
                     gender : {"unknown"}, emotion : {"neutral"}]] :
           n \in 0..MaxSummarySegments}

\* getattr: whether an object has the attribute.
HasAttr(object, name) == name \in DOMAIN object

\* Lines 1015-1017: speaker_groups[speaker_id].
SummaryGroup(segments, speaker_id) ==
    SelectSeq(segments, LAMBDA seg : seg.speaker_id = speaker_id)

\* Lines 1023-1026: the value of the attribute that most segments have.
Dominant(own_segments, name) ==
    LET Count(x) == Len(SelectSeq(own_segments, LAMBDA seg : seg[name] = x))
        values == {own_segments[k][name] : k \in 1..Len(own_segments)}
    IN  CHOOSE x \in values : \A y \in values : Count(y) <= Count(x)

\* Lines 1020-1028: the entry of a speaker.
SpeakerAnalysis(own_segments) ==
    [segment_count |-> Len(own_segments),
     dominant_gender |-> Dominant(own_segments, "gender"),
     dominant_emotion |-> Dominant(own_segments, "emotion"),
     total_duration |->
         SumSeq([k \in 1..Len(own_segments) |->
                    own_segments[k].end_time
                        - own_segments[k].start_time])]

\* Lines 1004-1034. Line 1007 reads seg.total_speakers of every segment: on
\* an object without that attribute it raises, and the except clause returns
\* the empty dict.
GetAiAnalysisSummary(segments) ==
    IF \E k \in 1..Len(segments) : ~HasAttr(segments[k], "total_speakers")
    THEN <<>>
    ELSE [total_segments |-> Len(segments),
          unique_speakers |->
              Cardinality({segments[k].total_speakers :
                              k \in 1..Len(segments)}),
          speaker_analysis |->
              [speaker_id \in {segments[k].speaker_id :
                                  k \in 1..Len(segments)} |->
                  SpeakerAnalysis(SummaryGroup(segments, speaker_id))]]

SummaryInit ==
    /\ summary_segments \in SummarySegments
    /\ summary = <<>>
    /\ summary_pc = "call"

SummaryIdle ==
    /\ summary_segments = <<>>
    /\ summary = <<>>
    /\ summary_pc = "idle"

Summarize ==
    /\ summary_pc = "call"
    /\ summary' = GetAiAnalysisSummary(summary_segments)
    /\ summary_pc' = "returned"
    /\ UNCHANGED summary_segments

\* ------------------------------------------------------------------------
\* TimingAwareDubber._combine_audio_segments (timing_aware_dubber.py
\* 310-345). Lengths and starts are ticks of 50 ms.
\* ------------------------------------------------------------------------

\* Line 329: AudioSegment.silent(duration=50) between two clips.
EchoGap == 1

\* Lines 316 and 345: AudioSegment.silent(duration=1000).
TadSilentFallbackLen == 20

\* Original starts (0, 0.5 s, 2 s) and clip lengths (0.25 s, 1 s).
TadStarts == {0, 10, 40}

TadLengths == {5, 20}

\* The clip lists _generate_timed_speech (lines 214-253) can hand over: clip
\* k carries id k.
TadClipLists ==
    UNION {[1..n -> [start : TadStarts, audio : TadLengths]] :
           n \in 0..MaxTadClips}

RECURSIVE TadCombineLoop(_, _, _)
\* The for loop of lines 325-338 from its i-th clip on: a gap of 50 ms when
\* the track is not empty, then the clip; the clip's start is not read.
TadCombineLoop(sorted_segments, i, track) ==
    IF i > Len(sorted_segments) THEN track
    ELSE LET segment == sorted_segments[i]
             withGap == IF SumLen(track, Len(track)) > 0
                        THEN Append(track, Silent(EchoGap))
                        ELSE track
         IN  TadCombineLoop(sorted_segments, i + 1,
                            Append(withGap, Audio(segment)))

\* Lines 310-345.
TadCombineAudioSegments(segments) ==
    IF segments = <<>>
    THEN <<Silent(TadSilentFallbackLen)>>
    ELSE TadCombineLoop(SortedByStart(segments), 1, <<>>)

TadCombineInit ==
    /\ tad_audio_segments \in {WithIds(l) : l \in TadClipLists}
    /\ tad_combined_audio = <<>>
    /\ tad_combine_pc = "call"

TadCombineIdle ==
    /\ tad_audio_segments = <<>>
    /\ tad_combined_audio = <<>>
    /\ tad_combine_pc = "idle"

TadCombine ==
    /\ tad_combine_pc = "call"
    /\ tad_combined_audio' = TadCombineAudioSegments(tad_audio_segments)
    /\ tad_combine_pc' = "returned"
    /\ UNCHANGED tad_audio_segments

\* ------------------------------------------------------------------------
\* The cache key of TTSService._generate_speech_with_timing_sync
\* (tts_service.py 273-288), with texts and voice ids spelled out in
\* characters. A voice id of the synthesis service is made of letters and
\* digits; a text can hold any character, the separator included.
\* ------------------------------------------------------------------------

\* The characters of a text and of a voice id.
TextChars == {"a", "X", "_"}

VoiceChars == {"X", "Y"}

KeyTexts == UNION {[1..n -> TextChars] : n \in 1..MaxKeyTextLen}

KeyVoiceIds == UNION {[1..n -> VoiceChars] : n \in 1..MaxVoiceIdLen}

\* Mutant: the key without its separator.
FormatKeyNoSeparator(text, voice_id) == text \o voice_id

\* Line 282: f"{text}_{voice_id}".
FormatKey(text, voice_id) == text \o <<"_">> \o voice_id

\* Line 282: hashlib.md5(...).hexdigest(), taken as free of collisions on
\* the strings at hand: the digest stands for the string it was made from.
Md5HexDigest(string) == string

\* Lines 282-283: cache_key and the name of the cache file.
SpelledCacheKey(text, voice_id) == Md5HexDigest(FormatKey(text, voice_id))

KeyInit ==
    /\ key_segments \in [1..2 -> [text : KeyTexts, voice_id : KeyVoiceIds]]
    /\ cache_keys = <<>>
    /\ key_pc = "call"

KeyIdle ==
    /\ key_segments = <<>>
    /\ cache_keys = <<>>
    /\ key_pc = "idle"

ComputeKeys ==
    /\ key_pc = "call"
    /\ cache_keys' = [k \in 1..2 |->
                         SpelledCacheKey(key_segments[k].text,
                                         key_segments[k].voice_id)]
    /\ key_pc' = "returned"
    /\ UNCHANGED key_segments

\* ------------------------------------------------------------------------
\* start_dubbing and process_dubbing_job (src/main.py 52-83, 122-170) with
\* JobManager.create_job and update_job (src/utils/job_manager.py 32-53).
\* The background tasks of several requests share one event loop: a task
\* runs from one await to the next without interruption.
\* ------------------------------------------------------------------------

DubJobIds == 1..MaxDubJobs

\* A key a job's dict does not hold.
NoValue == <<>>

\* A job id job_manager.jobs does not hold: self.jobs.get(job_id) is None.
NoJob == [none |-> TRUE]

\* The awaited steps of process_dubbing_job, lines 129-155.
Steps ==
    <<"download_video", "extract_audio", "detect_gender_from_audio",
      "transcribe", "translate", "generate_speech", "sync_audio_with_video">>

\* The status and progress written before each step, lines 126-150.
StepStatus ==
    <<"downloading", "extracting_audio", "detecting_gender", "transcribing",
      "translating", "generating_speech", "synchronizing">>

StepProgress == <<10, 20, 25, 30, 50, 70, 85>>

\* detect_gender_from_audio catches every exception and returns "unknown"
\* (gender_detector.py 13-23); the other steps raise on failure.
RaisingSteps == DOMAIN Steps \ {3}

\* JobManager.create_job, lines 32-42.
CreateJob(all_jobs, j) ==
    [all_jobs EXCEPT ![j] = [status |-> "initialized", progress |-> 0,
                             output_path |-> NoValue, error |-> NoValue,
                             message |-> NoValue]]

\* JobManager.update_job, lines 48-53: dict.update on a job that exists.
UpdateJob(all_jobs, j, updates) ==
    IF all_jobs[j] = NoJob THEN all_jobs
    ELSE [all_jobs EXCEPT ![j] =
             [key \in DOMAIN all_jobs[j] |->
                 IF key \in DOMAIN updates THEN updates[key]
                 ELSE all_jobs[j][key]]]

\* video_processor.py 58-70: the path sync_audio_with_video returns.
OutputPath(j) == <<"outputs", j, "dubbed_video.mp4">>

\* str(e) of the exception a step raises.
StepError(k) == <<Steps[k], "failed">>

\* Mutant: process_dubbing_job without its except clause.
ExceptClauseMissing(all_jobs, j, k) ==
    [jobs |-> all_jobs, pc |-> "raised"]

\* Lines 165-170: the except clause of process_dubbing_job.
ExceptClause(all_jobs, j, k) ==
    [jobs |-> UpdateJob(all_jobs, j,
                        [status |-> "failed", error |-> StepError(k),
                         message |-> <<"Dubbing failed", StepError(k)>>]),
     pc |-> "returned"]

JobInit ==
    /\ jobs = [j \in DubJobIds |-> NoJob]
    /\ task_pc = [j \in DubJobIds |-> "none"]
    /\ task_step = [j \in DubJobIds |-> 0]

JobIdle ==
    /\ jobs = <<>>
    /\ task_pc = <<>>
    /\ task_step = <<>>

\* start_dubbing, lines 52-80: the job is created and its task scheduled.
StartDubbing ==
    \E j \in DubJobIds :
        /\ task_pc[j] = "none"
        /\ jobs' = CreateJob(jobs, j)
        /\ task_pc' = [task_pc EXCEPT ![j] = "scheduled"]
        /\ UNCHANGED task_step

\* Lines 124-129: the task starts and awaits the download.
BeginJob ==
    \E j \in DubJobIds :
        /\ task_pc[j] = "scheduled"
        /\ jobs' = UpdateJob(jobs, j, [status |-> StepStatus[1],
                                       progress |-> StepProgress[1]])
        /\ task_pc' = [task_pc EXCEPT ![j] = "awaiting"]
        /\ task_step' = [task_step EXCEPT ![j] = 1]

\* Lines 129-163: the awaited step returns; the task writes the next status
\* and awaits the next step, or marks the job completed and returns.
StepReturns ==
    \E j \in DubJobIds :
        /\ task_pc[j] = "awaiting"
        /\ LET k == task_step[j]
           IN  IF k < Len(Steps)
               THEN /\ jobs' = UpdateJob(jobs, j,
                                   [status |-> StepStatus[k + 1],
                                    progress |-> StepProgress[k + 1]])
                    /\ task_step' = [task_step EXCEPT ![j] = k + 1]
                    /\ UNCHANGED task_pc
               ELSE /\ jobs' = UpdateJob(jobs, j,
                                   [status |-> "completed", progress |-> 100,
                                    output_path |-> OutputPath(j),
                                    message |-> <<"Dubbing completed successfully">>])
                    /\ task_pc' = [task_pc EXCEPT ![j] = "returned"]
                    /\ UNCHANGED task_step

\* Lines 129-155, 165-170: the awaited step raises.
StepRaises ==
    \E j \in DubJobIds :
        /\ task_pc[j] = "awaiting"
        /\ task_step[j] \in RaisingSteps
        /\ LET after == ExceptClause(jobs, j, task_step[j])
           IN  /\ jobs' = after.jobs
               /\ task_pc' = [task_pc EXCEPT ![j] = after.pc]
        /\ UNCHANGED task_step

\* ------------------------------------------------------------ specifications

InitCombine ==
    CombineInit /\ SpeedIdle /\ WordsIdle /\ MatchIdle
        /\ TranslateIdle /\ DubIdle /\ AlignIdle /\ SynthIdle /\ ContextIdle
        /\ AnalyzeIdle /\ SummaryIdle /\ TadCombineIdle /\ KeyIdle /\ JobIdle

NextCombine ==
    Combine
        /\ UNCHANGED <<speedVars, wordsVars, matchVars, translateVars,
                     dubVars, alignVars, synthVars, contextVars,
                     analyzeVars, summaryVars, tadCombineVars, keyVars,
                     jobVars>>

SpecCombine == InitCombine /\ [][NextCombine]_vars

InitSpeed ==
    SpeedInit /\ CombineIdle /\ WordsIdle /\ MatchIdle
        /\ TranslateIdle /\ DubIdle /\ AlignIdle /\ SynthIdle /\ ContextIdle
        /\ AnalyzeIdle /\ SummaryIdle /\ TadCombineIdle /\ KeyIdle /\ JobIdle

NextSpeed ==
    (TtsAdjust \/ TadAdjust)
        /\ UNCHANGED <<combineVars, wordsVars, matchVars, translateVars,
                     dubVars, alignVars, synthVars, contextVars,
                     analyzeVars, summaryVars, tadCombineVars, keyVars,
                     jobVars>>

SpecSpeed == InitSpeed /\ [][NextSpeed]_vars

InitWords ==
    WordsInit /\ CombineIdle /\ SpeedIdle /\ MatchIdle
        /\ TranslateIdle /\ DubIdle /\ AlignIdle /\ SynthIdle /\ ContextIdle
        /\ AnalyzeIdle /\ SummaryIdle /\ TadCombineIdle /\ KeyIdle /\ JobIdle

NextWords ==
    (TranslatorCalculate \/ DubberCalculate)
        /\ UNCHANGED <<combineVars, speedVars, matchVars, translateVars,
                     dubVars, alignVars, synthVars, contextVars,
                     analyzeVars, summaryVars, tadCombineVars, keyVars,
                     jobVars>>

SpecWords == InitWords /\ [][NextWords]_vars

InitMatch ==
    MatchInit /\ CombineIdle /\ SpeedIdle /\ WordsIdle
        /\ TranslateIdle /\ DubIdle /\ AlignIdle /\ SynthIdle /\ ContextIdle
        /\ AnalyzeIdle /\ SummaryIdle /\ TadCombineIdle /\ KeyIdle /\ JobIdle

NextMatch ==
    Match
        /\ UNCHANGED <<combineVars, speedVars, wordsVars, translateVars,
                     dubVars, alignVars, synthVars, contextVars,
                     analyzeVars, summaryVars, tadCombineVars, keyVars,
                     jobVars>>

SpecMatch == InitMatch /\ [][NextMatch]_vars

InitTranslate ==
    TranslateInit /\ CombineIdle /\ SpeedIdle /\ WordsIdle
        /\ MatchIdle /\ DubIdle /\ AlignIdle /\ SynthIdle /\ ContextIdle
        /\ AnalyzeIdle /\ SummaryIdle /\ TadCombineIdle /\ KeyIdle /\ JobIdle

NextTranslate ==
    (DubberTranslate \/ TranslatorTranslate)
        /\ UNCHANGED <<combineVars, speedVars, wordsVars, matchVars,
                     dubVars, alignVars, synthVars, contextVars,
                     analyzeVars, summaryVars, tadCombineVars, keyVars,
                     jobVars>>

SpecTranslate == InitTranslate /\ [][NextTranslate]_vars

InitDub ==
    DubInit /\ CombineIdle /\ SpeedIdle /\ WordsIdle /\ MatchIdle
        /\ TranslateIdle /\ AlignIdle /\ SynthIdle /\ ContextIdle
        /\ AnalyzeIdle /\ SummaryIdle /\ TadCombineIdle /\ KeyIdle /\ JobIdle

NextDub ==
    DubStep
        /\ UNCHANGED <<combineVars, speedVars, wordsVars, matchVars,
                     translateVars, alignVars, synthVars, contextVars,
                     analyzeVars, summaryVars, tadCombineVars, keyVars,
                     jobVars>>

SpecDub == InitDub /\ [][NextDub]_vars

InitAlign ==
    AlignInit /\ CombineIdle /\ SpeedIdle /\ WordsIdle
        /\ MatchIdle /\ TranslateIdle /\ DubIdle /\ SynthIdle /\ ContextIdle
        /\ AnalyzeIdle /\ SummaryIdle /\ TadCombineIdle /\ KeyIdle /\ JobIdle

NextAlign ==
    (Align \/ CreateFallback)
        /\ UNCHANGED <<combineVars, speedVars, wordsVars, matchVars,
                     translateVars, dubVars, synthVars, contextVars,
                     analyzeVars, summaryVars, tadCombineVars, keyVars,
                     jobVars>>

SpecAlign == InitAlign /\ [][NextAlign]_vars

InitSynth ==
    SynthInit /\ CombineIdle /\ SpeedIdle /\ WordsIdle
        /\ MatchIdle /\ TranslateIdle /\ DubIdle /\ AlignIdle /\ ContextIdle
        /\ AnalyzeIdle /\ SummaryIdle /\ TadCombineIdle /\ KeyIdle /\ JobIdle

NextSynth ==
    (TimingAwareSpeechCall \/ SynthesizeSegment \/ CombineAndExport
     \/ SynthesisTimeout)
        /\ UNCHANGED <<combineVars, speedVars, wordsVars, matchVars,
                     translateVars, dubVars, alignVars, contextVars,
                     analyzeVars, summaryVars, tadCombineVars, keyVars,
                     jobVars>>

SpecSynth == InitSynth /\ [][NextSynth]_vars

InitContext ==
    ContextInit /\ CombineIdle /\ SpeedIdle /\ WordsIdle
        /\ MatchIdle /\ TranslateIdle /\ DubIdle /\ AlignIdle /\ SynthIdle
        /\ AnalyzeIdle /\ SummaryIdle /\ TadCombineIdle /\ KeyIdle /\ JobIdle

NextContext ==
    TranslateContext
        /\ UNCHANGED <<combineVars, speedVars, wordsVars, matchVars,
                     translateVars, dubVars, alignVars, synthVars,
                     analyzeVars, summaryVars, tadCombineVars, keyVars,
                     jobVars>>

SpecContext == InitContext /\ [][NextContext]_vars

InitAnalyze ==
    AnalyzeInit /\ CombineIdle /\ SpeedIdle /\ WordsIdle
        /\ MatchIdle /\ TranslateIdle /\ DubIdle /\ AlignIdle /\ SynthIdle
        /\ ContextIdle /\ SummaryIdle /\ TadCombineIdle /\ KeyIdle /\ JobIdle

NextAnalyze ==
    AnalyzeVoices
        /\ UNCHANGED <<combineVars, speedVars, wordsVars, matchVars,
                     translateVars, dubVars, alignVars, synthVars,
                     contextVars, summaryVars, tadCombineVars, keyVars,
                     jobVars>>

SpecAnalyze == InitAnalyze /\ [][NextAnalyze]_vars

InitSummary ==
    SummaryInit /\ CombineIdle /\ SpeedIdle /\ WordsIdle
        /\ MatchIdle /\ TranslateIdle /\ DubIdle /\ AlignIdle /\ SynthIdle
        /\ ContextIdle /\ AnalyzeIdle /\ TadCombineIdle /\ KeyIdle /\ JobIdle

NextSummary ==
    Summarize
        /\ UNCHANGED <<combineVars, speedVars, wordsVars, matchVars,
                     translateVars, dubVars, alignVars, synthVars,
                     contextVars, analyzeVars, tadCombineVars, keyVars,
                     jobVars>>

SpecSummary == InitSummary /\ [][NextSummary]_vars

InitTadCombine ==
    TadCombineInit /\ CombineIdle /\ SpeedIdle /\ WordsIdle
        /\ MatchIdle /\ TranslateIdle /\ DubIdle /\ AlignIdle /\ SynthIdle
        /\ ContextIdle /\ AnalyzeIdle /\ SummaryIdle /\ KeyIdle /\ JobIdle

NextTadCombine ==
    TadCombine
        /\ UNCHANGED <<combineVars, speedVars, wordsVars, matchVars,
                     translateVars, dubVars, alignVars, synthVars,
                     contextVars, analyzeVars, summaryVars, keyVars,
                     jobVars>>

SpecTadCombine == InitTadCombine /\ [][NextTadCombine]_vars

InitKey ==
    KeyInit /\ CombineIdle /\ SpeedIdle /\ WordsIdle /\ MatchIdle
        /\ TranslateIdle /\ DubIdle /\ AlignIdle /\ SynthIdle /\ ContextIdle
        /\ AnalyzeIdle /\ SummaryIdle /\ TadCombineIdle /\ JobIdle

NextKey ==
    ComputeKeys
        /\ UNCHANGED <<combineVars, speedVars, wordsVars, matchVars,
                     translateVars, dubVars, alignVars, synthVars,
                     contextVars, analyzeVars, summaryVars, tadCombineVars,
                     jobVars>>

SpecKey == InitKey /\ [][NextKey]_vars

InitJob ==
    JobInit /\ CombineIdle /\ SpeedIdle /\ WordsIdle /\ MatchIdle
        /\ TranslateIdle /\ DubIdle /\ AlignIdle /\ SynthIdle /\ ContextIdle
        /\ AnalyzeIdle /\ SummaryIdle /\ TadCombineIdle /\ KeyIdle

NextJob ==
    (StartDubbing \/ BeginJob \/ StepReturns \/ StepRaises)
        /\ UNCHANGED <<combineVars, speedVars, wordsVars, matchVars,
                     translateVars, dubVars, alignVars, synthVars,
                     contextVars, analyzeVars, summaryVars, tadCombineVars,
                     keyVars>>

SpecJob == InitJob /\ [][NextJob]_vars

\* The empty clip list handed to _combine_audio_segments, beside the runs of
\* _generate_timing_aware_speech.
InitSilence ==
    CombineInit /\ audio_segments = <<>> /\ SynthInit
        /\ SpeedIdle /\ WordsIdle /\ MatchIdle /\ TranslateIdle /\ DubIdle
        /\ AlignIdle /\ ContextIdle /\ AnalyzeIdle /\ SummaryIdle
        /\ TadCombineIdle /\ KeyIdle /\ JobIdle

NextSilence ==
    /\ \/ Combine /\ UNCHANGED synthVars
       \/ (TimingAwareSpeechCall \/ SynthesizeSegment \/ CombineAndExport
           \/ SynthesisTimeout)
             /\ UNCHANGED combineVars
    /\ UNCHANGED <<speedVars, wordsVars, matchVars, translateVars,
                   dubVars, alignVars, contextVars, analyzeVars,
                   summaryVars, tadCombineVars, keyVars, jobVars>>

SpecSilence == InitSilence /\ [][NextSilence]_vars

\* The event loop runs a coroutine that can take a step.
FairSpecTranslate == SpecTranslate /\ WF_vars(NextTranslate)

\* The event loop runs a background task that can take a step.
FairSpecJob == SpecJob /\ WF_vars(NextJob)

\* ------------------------------------------------- reading the track back

\* Index in the track of the piece that carries clip id, 0 if none.
PieceOf(track, id) ==
    IF \E k \in 1..Len(track) : track[k].kind = "audio" /\ track[k].clip = id
    THEN CHOOSE k \in 1..Len(track) : track[k].kind = "audio" /\ track[k].clip = id
    ELSE 0

\* Where the piece k begins and ends in the track.
OnsetOfPiece(track, k) == SumLen(track, k - 1)
EndOfPiece(track, k) == SumLen(track, k)

Onset(track, id) == OnsetOfPiece(track, PieceOf(track, id))

AudioPieces(track) == {k \in 1..Len(track) : track[k].kind = "audio"}

SilenceTotal(track) ==
    LET RECURSIVE S(_)
        S(n) == IF n = 0 THEN 0
                ELSE S(n - 1) + (IF track[n].kind = "silence" THEN track[n].len ELSE 0)
    IN S(Len(track))

ClipById(id) == audio_segments[id]

Returned == combine_pc = "returned" /\ audio_segments # <<>>

\* The last audio piece before piece k, 0 if there is none.
PrevAudio(track, k) ==
    LET before == {j \in AudioPieces(track) : j < k}
    IN  IF before = {} THEN 0
        ELSE CHOOSE j \in before : \A h \in before : h <= j

\* The clips of the argument follow one another without gaps, from time 0.
Gapless(segments) ==
    /\ segments # <<>>
    /\ segments[1].start = 0
    /\ \A k \in 1..(Len(segments) - 1) :
           segments[k + 1].start = segments[k].start + segments[k].audio

\* ------------------------------------------------------------------ C1
\* C1: in the assembled track every clip appears exactly once, its onset is
\* at or after its original start, and the clips follow one another in
\* order of original start, each beginning at or after the end of the clip
\* placed before it.
C1_OnsetsNotEarlyAndSequential ==
    Returned =>
        /\ \A id \in 1..Len(audio_segments) :
               /\ Cardinality({k \in AudioPieces(combined_audio) :
                                   combined_audio[k].clip = id}) = 1
               /\ Onset(combined_audio, id) >= ClipById(id).start
        /\ \A k \in AudioPieces(combined_audio) :
               LET p == PrevAudio(combined_audio, k)
               IN  p # 0 =>
                     /\ ClipById(combined_audio[p].clip).start
                            <= ClipById(combined_audio[k].clip).start
                     /\ OnsetOfPiece(combined_audio, k)
                            >= EndOfPiece(combined_audio, p)

\* A track of three clips given out of start order, in which one clip waits
\* for its original start and another starts late after an overrun.
C1_Witness ==
    /\ Returned
    /\ Len(audio_segments) = MaxClips
    /\ \E k \in 1..(Len(audio_segments) - 1) :
           audio_segments[k].start > audio_segments[k + 1].start
    /\ \E k \in 1..Len(combined_audio) : combined_audio[k].kind = "silence"
    /\ \E id \in 1..Len(audio_segments) :
           Onset(combined_audio, id) > ClipById(id).start

\* ------------------------------------------------------------------ C2
\* C2: with the position starting at 0, each clip's onset is
\* max(original start, position); exactly (original start - position) of
\* silence precedes it when the position is before the original start and
\* none otherwise; the position then advances by the clip's own length.  The
\* documented scenario gives onsets 0, 2.5 s, 6.0 s and a length of 6.5 s,
\* and a gapless clip list comes out as its plain concatenation.
C2_PlacementRule ==
    Returned =>
        /\ \A k \in AudioPieces(combined_audio) :
               LET p == PrevAudio(combined_audio, k)
                   position == EndOfPiece(combined_audio, p)
                   clip == ClipById(combined_audio[k].clip)
               IN  /\ OnsetOfPiece(combined_audio, k) = Max(clip.start, position)
                   /\ position < clip.start =>
                          /\ k = p + 2
                          /\ combined_audio[k - 1] = Silent(clip.start - position)
                   /\ position >= clip.start => k = p + 1
                   /\ combined_audio[k].len = clip.audio
        /\ combined_audio[Len(combined_audio)].kind = "audio"
        /\ audio_segments = WithIds(ScenarioClips) =>
               /\ Onset(combined_audio, 1) = 0
               /\ Onset(combined_audio, 2) = 5
               /\ Onset(combined_audio, 3) = 12
               /\ SumLen(combined_audio, Len(combined_audio)) = 13
        /\ Gapless(audio_segments) =>
               /\ SilenceTotal(combined_audio) = 0
               /\ combined_audio = [k \in 1..Len(audio_segments) |->
                                        Audio(audio_segments[k])]

\* The documented scenario has been assembled.
C2_Witness ==
    /\ Returned
    /\ audio_segments = WithIds(ScenarioClips)
    /\ Len(combined_audio) = 4

\* A gapless list of several clips has been assembled.
C2_WitnessGapless ==
    /\ Returned
    /\ Gapless(audio_segments)
    /\ Len(audio_segments) = MaxClips

\* ------------------------------------------------------------------ C4
\* The ids of the catalog voices that declare the target language.
EligibleIds ==
    {available_voices[k].voice_id : k \in
        {j \in 1..Len(available_voices) :
            \E lang \in available_voices[j].verified_languages :
                lang \in {"es", "ES"}}}

Speakers == {voice_profiles[k].speaker_id : k \in 1..Len(voice_profiles)}

\* C4: with at least one eligible voice, the returned assignment covers every
\* speaker, assigns only eligible voices, and gives no voice to two speakers
\* unless there are more speakers than eligible voices.
C4_AssignmentCoversEligibleDistinct ==
    (match_pc = "returned" /\ EligibleIds # {}) =>
        LET mapping == match_result.mapping
        IN  /\ DOMAIN mapping = Speakers
            /\ \A s \in Speakers : mapping[s].voice_id \in EligibleIds
            /\ Cardinality(Speakers) <= Cardinality(EligibleIds) =>
                   \A s1, s2 \in Speakers :
                       mapping[s1].voice_id = mapping[s2].voice_id => s1 = s2

\* Several speakers matched from a catalog that holds enough eligible voices
\* and a voice that is not eligible.
C4_Witness ==
    /\ match_pc = "returned"
    /\ Cardinality(Speakers) >= 2
    /\ Cardinality(EligibleIds) = Cardinality(Speakers)
    /\ Len(available_voices) > Cardinality(EligibleIds)
    /\ DOMAIN match_result.mapping = Speakers

\* ------------------------------------------------------------------ C5
\* C5: when no voice of the catalog supports the target language, the match
\* operation ends in an error surfaced to its caller and returns no
\* assignment.
C5_NoEligibleVoiceRaises ==
    (match_pc = "returned" /\ EligibleIds = {}) =>
        match_result.outcome = "raised"

C8_NeverSlowsDown ==
    (tad_adjusted # NotYet /\ audio_len > 0 /\ audio_len < target_duration) =>
        tad_adjusted = audio_len

\* ------------------------------------------------------------------ C10
\* C10 as stated: the target word count is max(1, round(duration / 60 * 150))
\* in both functions (round: to nearest, halves to even).
RoundHalfEven(n, m) ==
    LET q == n \div m
        r == n % m
    IN  IF 2 * r > m \/ (2 * r = m /\ q % 2 = 1) THEN q + 1 ELSE q

C10_RoundedWordCount ==
    /\ translator_words # NotYet =>
           translator_words = Max(1, RoundHalfEven(segment_duration * 150, MinuteLen))
    /\ dubber_words # NotYet =>
           dubber_words = Max(1, RoundHalfEven(segment_duration * 150, MinuteLen))

\* C10 amended: both functions return max(1, int(duration / 60 * 150)): the
\* product is truncated, never rounded up; it is the whole part of
\* 2.5 * duration, or one less when 2.5 * duration is a whole number whose
\* float product falls just below it, and it is at least 1.
WordsFloor == (segment_duration * 150) \div MinuteLen
WordsCeil == (segment_duration * 150 + MinuteLen - 1) \div MinuteLen

TruncatedCountOk(words) ==
    /\ words >= 1
    /\ words <= Max(1, WordsFloor)
    /\ words >= Max(1, WordsCeil - 1)
    /\ ~fp_below => words = Max(1, WordsFloor)

C10_TruncatedWordCount ==
    /\ translator_words # NotYet => TruncatedCountOk(translator_words)
    /\ dubber_words # NotYet => TruncatedCountOk(dubber_words)

\* Both functions have computed the count of a 0.7 s segment: 1 word, where
\* rounding would give 2.
C10_Witness ==
    /\ segment_duration = 70
    /\ translator_words = 1
    /\ dubber_words = 1

\* ------------------------------------------------------------------ C9
\* The segments of the request whose text is not blank.
NonBlank == {i \in 1..Len(tr_segments) : Strip(tr_segments[i]) # <<>>}

\* A finished translation never failed, holds a translation that is not empty
\* for every non-blank segment, and holds the input text itself for a segment
\* on which every backend it can use failed.
NeverEmptyNeverFails(result, uses_mt) ==
    result.outcome # "none" =>
        /\ result.outcome = "returned"
        /\ {result.segments[k].segment : k \in 1..Len(result.segments)} = NonBlank
        /\ \A k \in 1..Len(result.segments) :
               LET t == result.segments[k]
                   i == t.segment
                   gpt_failed == ~openai_api_key \/ ~gpt_answers[i].ok
                   mt_failed == ~uses_mt \/ ~mt_answers[i].ok
               IN  /\ t.translated_text # <<>>
                   /\ (gpt_failed /\ mt_failed) =>
                          t.translated_text = Strip(tr_segments[i])

\* C9: duration-budgeted translation of a non-empty text never yields an
\* empty string and never fails the job; when the generative backend and the
\* machine-translation backend both fail the result is the input text.
C9_NeverEmptyNeverFails ==
    /\ NeverEmptyNeverFails(dubber_translated, TRUE)
    /\ NeverEmptyNeverFails(translator_translated, FALSE)

\* ------------------------------------------------------------------ C3
\* C3: in the timing-aware path every call to the synthesis backend for a
\* segment uses the voice the matcher assigned to the segment's speaker.
C3_TimedCallsUseAssignedVoice ==
    \A k \in 1..Len(synth_calls) :
        LET call == synth_calls[k]
            segment == speaker_segments[call.segment]
        IN  (call.mode = "timing" /\ segment.matched_voice_id # NoVoice) =>
                call.voice_id = segment.matched_voice_id

\* ------------------------------------------------------------------ C6
\* The matcher was handed a catalog in which no voice declares the target
\* language.
NoVoiceForLanguage ==
    /\ seen_voices # <<>>
    /\ LanguageVoices(seen_voices, TargetLanguage) = <<>>

\* C6: when no voice of the catalog declares the target language, the dub
\* operation raises and no call to the synthesis backend is made at any
\* point of the run.
C6_NoVoiceRaisesBeforeSynthesis ==
    NoVoiceForLanguage =>
        /\ synth_calls = <<>>
        /\ dub_pc = "done" => dub_result.outcome = "raised"

\* ------------------------------------------------------------------ C11
\* No two turns of the diarization overlap.
NonOverlapping ==
    \A j, k \in 1..Len(diarization) :
        j # k => \/ diarization[j].end <= diarization[k].start
                 \/ diarization[k].end <= diarization[j].start

\* C11: for a diarization with non-overlapping turns the alignment returns
\* one speaker-tagged segment per input segment, in the same order and with
\* the same start and end, whose label is a label of the timeline or the
\* default label.
C11_OneLabelPerSegment ==
    (align_pc = "returned" /\ NonOverlapping) =>
        /\ Len(aligned_segments) = Len(whisper_result)
        /\ \A i \in 1..Len(whisper_result) :
               /\ aligned_segments[i].start_time = whisper_result[i].start
               /\ aligned_segments[i].end_time = whisper_result[i].end
               /\ aligned_segments[i].speaker_id \in
                      {diarization[k].speaker : k \in 1..Len(diarization)}
                          \cup {"SPEAKER_00"}

\* Two segments aligned against two separate turns, one segment inside a
\* turn and one outside every turn.
C11_Witness ==
    /\ align_pc = "returned"
    /\ NonOverlapping
    /\ Len(diarization) = 2
    /\ Len(aligned_segments) = 2
    /\ \E i, j \in 1..2 :
           /\ FirstContaining(SpeakerTimeline(diarization),
                              Midpoint2(whisper_result[i])) # 0
           /\ FirstContaining(SpeakerTimeline(diarization),
                              Midpoint2(whisper_result[j])) = 0

\* ------------------------------------------------------------------ C12
\* The turns, in start order, whose half-open interval [start, end) holds
\* the doubled midpoint.
HalfOpenHits(timeline, mid2) ==
    {k \in 1..Len(timeline) :
        2 * timeline[k].start <= mid2 /\ mid2 < 2 * timeline[k].end}

\* C12: a segment whose midpoint lies in some turn's [start, end) carries the
\* label of the first such turn of the start-sorted timeline.
C12_FirstContainingTurnWins ==
    align_pc = "returned" =>
        \A i \in 1..Len(whisper_result) :
            LET timeline == SpeakerTimeline(diarization)
                hits == HalfOpenHits(timeline, Midpoint2(whisper_result[i]))
            IN  hits # {} =>
                    aligned_segments[i].speaker_id =
                        timeline[CHOOSE k \in hits : \A h \in hits : k <= h].speaker

\* ------------------------------------------------------------------ C13
\* C13: the nearest-turn fallback acts only on a segment whose midpoint no
\* turn contains, and then gives it the label of a turn of least distance;
\* a segment whose midpoint lies in a turn keeps the label of the first turn
\* that contains it.
C13_FallbackOnlyWithoutContainingTurn ==
    align_pc = "returned" =>
        \A i \in 1..Len(whisper_result) :
            LET timeline == SpeakerTimeline(diarization)
                mid2 == Midpoint2(whisper_result[i])
                k == FirstContaining(timeline, mid2)
            IN  /\ k # 0 => aligned_segments[i].speaker_id = timeline[k].speaker
                /\ (k = 0 /\ timeline # <<>>) =>
                       \E n \in 1..Len(timeline) :
                           /\ aligned_segments[i].speaker_id = timeline[n].speaker
                           /\ \A h \in 1..Len(timeline) :
                                  TurnDistance2(timeline[n], mid2)
                                      <= TurnDistance2(timeline[h], mid2)

\* ------------------------------------------------------------------ C14
\* The number of segments up to the i-th that start more than the threshold
\* after the end of their predecessor.
GapsUpTo(i) ==
    Cardinality({j \in 2..i :
        whisper_result[j].start - whisper_result[j - 1].end > 2})

\* C14: with an empty diarization the speakers come from the duration-gap
\* heuristic: the first segment gets the first speaker of a pool of two and
\* the speaker switches exactly at each segment that starts more than 2.0 s
\* after the end of the previous one.
C14_EmptyTimelineUsesGapHeuristic ==
    (align_pc = "returned" /\ diarization = <<>>) =>
        \A i \in 1..Len(whisper_result) :
            aligned_segments[i].speaker_id =
                IF GapsUpTo(i) % 2 = 0 THEN "SPEAKER_00" ELSE "SPEAKER_01"

\* ------------------------------------------------------------------------
\* The synthesis run and its cache
\* ------------------------------------------------------------------------

\* Two records (calls or clips) for the same (translated_text, voice_id).
SamePair(a, b) == a.text = b.text /\ a.voice_id = b.voice_id

\* The calls to the backend made by the current run.
RunCalls ==
    {k \in 1..Len(backend_calls) : backend_calls[k].run = synth_runs}

\* C15: within one synthesis run the backend is called at most once for each
\* (translated_text, voice_id) pair, and every later segment of the run with
\* the pair of an earlier call is served that call's audio from the cache.
C15_OneBackendCallPerPair ==
    /\ \A j, k \in 1..Len(backend_calls) :
           (j < k /\ backend_calls[j].run = backend_calls[k].run)
               => ~SamePair(backend_calls[j], backend_calls[k])
    /\ \A c \in 1..Len(synth_clips) : \A k \in RunCalls :
           (SamePair(synth_clips[c], backend_calls[k])
                /\ backend_calls[k].segment < synth_clips[c].segment)
               => /\ synth_clips[c].hit
                  /\ synth_clips[c].raw = backend_calls[k].audio

\* A run whose second segment repeats the pair of its first and is served
\* from the cache.
C15_Witness ==
    \E c \in 1..Len(synth_clips) : \E k \in RunCalls :
        /\ SamePair(synth_clips[c], backend_calls[k])
        /\ backend_calls[k].segment < synth_clips[c].segment
        /\ synth_clips[c].hit
        /\ Cardinality(RunCalls) = 1

\* C16: a pair synthesized during one job is not sent to the backend again by
\* a later job with a different job id.
C16_CachePersistsAcrossJobs ==
    \A j, k \in 1..Len(backend_calls) :
        (/\ j < k
         /\ backend_calls[j].audio # NoAudio
         /\ backend_calls[j].job_id # backend_calls[k].job_id)
            => ~SamePair(backend_calls[j], backend_calls[k])

\* The cache file of a call or of a clip of the current run.
CacheFileOf(job_id, r) == CacheFile(job_id, CacheKey(r.text, r.voice_id))

\* C17: every cache file holds what the backend delivered for its key, no
\* key has two files, and a clip served from the cache starts from that
\* unadjusted audio, whatever adjustment other clips of the key went through.
C17_CacheHoldsUnadjustedAudio ==
    /\ \A f \in cache_files :
           \E k \in 1..Len(backend_calls) :
               /\ CacheFileOf(backend_calls[k].job_id, backend_calls[k])
                      = f.file
               /\ backend_calls[k].audio = f.audio
    /\ \A f, g \in cache_files : f.file = g.file => f = g
    /\ \A c \in 1..Len(synth_clips) :
           synth_clips[c].hit
               => \E f \in cache_files :
                      /\ f.file = CacheFileOf(synth_job, synth_clips[c])
                      /\ f.audio = synth_clips[c].raw

\* A clip that was shortened after its audio was cached, and a later clip of
\* the same pair served the unadjusted audio.
C17_Witness ==
    \E b, c \in 1..Len(synth_clips) :
        /\ b < c
        /\ SamePair(synth_clips[b], synth_clips[c])
        /\ ~synth_clips[b].hit
        /\ synth_clips[b].audio # synth_clips[b].raw
        /\ synth_clips[c].hit
        /\ synth_clips[c].raw = synth_clips[b].raw

\* A call of the current run that raised or delivered no audio.
FailedCall == \E k \in RunCalls : backend_calls[k].audio = NoAudio

\* C18: _generate_timing_aware_speech never raises, and when a call to the
\* synthesis backend fails or delivers no audio it returns the path of the
\* one-second silent track.
C18_SynthesisFailureGivesSilence ==
    /\ synth_result.outcome \in {"none", "returned"}
    /\ FailedCall =>
           /\ synth_result.outcome = "returned"
           /\ synth_result.audio = <<Silent(2)>>

\* The backend fails for the second segment after it delivered the first.
C18_Witness ==
    /\ FailedCall
    /\ Len(synth_clips) = 1
    /\ synth_result.audio = <<Silent(2)>>
    /\ synth_result.outcome = "returned"
    /\ output_files[synth_job] = <<Silent(2)>>

\* A run of _generate_timing_aware_speech whose segment list is empty or has
\* blank texts only.
NothingToSay ==
    /\ synth_runs > 0
    /\ \A k \in 1..Len(synth_segments) : Strip(synth_segments[k].text) = <<>>

\* C19: the empty clip list makes _combine_audio_segments return one second
\* of silence, and a segment list that is empty or all blank makes
\* _generate_timing_aware_speech return the path of one second of silence,
\* without a call to the backend and without an exception.
C19_EmptyInputGivesPlaceholder ==
    /\ (combine_pc = "returned" /\ audio_segments = <<>>)
           => combined_audio = <<[kind |-> "silence", len |-> 2, clip |-> 0]>>
    /\ NothingToSay =>
           /\ synth_result.outcome = "returned"
           /\ synth_result.audio
                  = <<[kind |-> "silence", len |-> 2, clip |-> 0]>>
           /\ output_files[synth_job] = synth_result.audio
           /\ RunCalls = {}

\* Both placeholders: the empty clip list combined, and a run over two blank
\* segments returned.
C19_Witness ==
    /\ combine_pc = "returned"
    /\ audio_segments = <<>>
    /\ Len(combined_audio) = 1
    /\ NothingToSay
    /\ Len(synth_segments) = 2
    /\ synth_result.outcome = "returned"

\* ------------------------------------------------------------------------
\* Backends that never respond
\* ------------------------------------------------------------------------

\* The generative backend is asked for a segment and never responds to it,
\* and answers or fails for every segment asked before.
GptNeverResponds ==
    /\ openai_api_key
    /\ \E i \in 1..Len(tr_segments) :
           /\ Strip(tr_segments[i]) # <<>>
           /\ gpt_answers[i] = NoAnswer
           /\ \A j \in 1..(i - 1) :
                  Strip(tr_segments[j]) # <<>> => gpt_answers[j].ok

\* C20: when the translation backend never responds, the translation still
\* ends, and it ends with the segments translated by the next tier rather
\* than with an error.
C20_UnresponsiveBackendStillEnds ==
    GptNeverResponds
        => <>(/\ translator_translated.outcome = "returned"
              /\ dubber_translated.outcome = "returned")

\* ------------------------------------------------------------------------
\* The abandoned synthesis worker
\* ------------------------------------------------------------------------

\* The caller has its result while the worker is still in its loop: wait_for
\* timed out and the silent fallback was written.
Abandoned == synth_pc = "loop" /\ synth_result.outcome = "returned"

\* C21: once the synthesis run has been abandoned on its timeout, no step
\* changes the cache files or the job's output track.
C21_AbandonedWorkerWritesNothing ==
    [][Abandoned => /\ cache_files' = cache_files
                    /\ output_files' = output_files]_vars

\* ------------------------------------------------------------------------
\* Corrupt translation outputs
\* ------------------------------------------------------------------------

\* A text that is empty, shorter than two characters, or carries the marker.
Corrupt(text) ==
    text = <<>> \/ TextLen(text) < 2 \/ ContainsMarker(text)

\* C22: every text that _translate_with_context stores in a segment, in
\* either mode, is a translation output that is not empty, not shorter than
\* two characters and free of the marker.
C22_NoCorruptTranslationStored ==
    ctx_translated.outcome = "returned" =>
        \A i \in 1..Len(ctx_segments) :
            ctx_translated.segments[i].text # ctx_segments[i].text
                => ~Corrupt(ctx_translated.segments[i].text)

\* ------------------------------------------------------------------------
\* Speaker profiles
\* ------------------------------------------------------------------------

\* The sampled segments of a speaker: of its first three segments, those of
\* at least 0.5 s whose features were extracted.
Sampled(speaker_id) ==
    LET group == SpeakerGroup(voiced_segments, speaker_id)
    IN  SelectSeq(SubSeq(group, 1, Min(3, Len(group))), LAMBDA i :
            /\ voiced_segments[i].duration >= 5
            /\ voiced_segments[i].extracted # <<>>)

\* The values of a feature in the samples that have it.
FeatureValues(samples, key) ==
    LET having == SelectSeq(samples, LAMBDA i :
                      key \in DOMAIN voiced_segments[i].extracted)
    IN  [k \in 1..Len(having) |-> voiced_segments[having[k]].extracted[key]]

\* C23: after the analysis every segment of a speaker carries one and the
\* same profile, and for each feature extracted from the speaker's sampled
\* segments that profile holds the mean of the extracted values.
C23_ProfileIsFeatureMean ==
    analyze_pc = "returned" =>
        \A i \in 1..Len(voiced_segments) :
            LET samples == Sampled(voiced_segments[i].speaker_id)
                profile == analyzed_segments[i].voice_characteristics
            IN  samples # <<>> =>
                  /\ \A j \in 1..Len(voiced_segments) :
                         voiced_segments[j].speaker_id
                                 = voiced_segments[i].speaker_id
                             => analyzed_segments[j].voice_characteristics
                                    = profile
                  /\ \A key \in {"mfcc_mean", "pitch_mean"} :
                         LET values == FeatureValues(samples, key)
                         IN  values # <<>> =>
                               /\ key \in DOMAIN profile
                               /\ profile[key].sum * Len(values)
                                      = SumSeq(values) * profile[key].count

\* ------------------------------------------------------------------------
\* The analysis summary
\* ------------------------------------------------------------------------

\* C24: the returned summary has, for every speaker of the segments, the
\* number of the speaker's segments and the sum of their durations, and the
\* segment counts add up to the number of segments.
C24_SummaryCountsAndDurations ==
    summary_pc = "returned" =>
        \A k \in 1..Len(summary_segments) :
            LET speaker_id == summary_segments[k].speaker_id
                own == SelectSeq(summary_segments,
                                 LAMBDA seg : seg.speaker_id = speaker_id)
            IN  /\ "speaker_analysis" \in DOMAIN summary
                /\ speaker_id \in DOMAIN summary.speaker_analysis
                /\ summary.speaker_analysis[speaker_id].segment_count
                       = Len(own)
                /\ summary.speaker_analysis[speaker_id].total_duration
                       = SumSeq([j \in 1..Len(own) |->
                                    own[j].end_time - own[j].start_time])
                /\ SumSeq([j \in 1..Len(SpeakerOrder(summary_segments)) |->
                       summary.speaker_analysis[
                           SpeakerOrder(summary_segments)[j]].segment_count])
                       = Len(summary_segments)

\* ------------------------------------------------------------------------
\* The fallback of the dub operation
\* ------------------------------------------------------------------------

\* The run of dub_with_ai_analysis has ended with an error.
DubRaised == dub_pc = "done" /\ dub_result.outcome = "raised"

\* The full pipeline (lines 47-89) was run and a stage of it raised.
FullPipelineFailed == ~use_simple_fallback /\ in_except

\* C25 as stated: the operation raises only if the full pipeline failed and
\* the simple fallback failed after it.
C25_RaisesOnlyAfterFullPipelineFailed ==
    DubRaised => FullPipelineFailed /\ fallback_runs >= 1

\* C25, amended: the operation raises only if its try block failed (the full
\* pipeline, or the simple fallback itself when use_simple_fallback is set)
\* and the simple fallback started by the except clause failed as well; a run
\* that ends after its try block failed without that error returns a track.
C25_RaisesOnlyAfterFallbackFailed ==
    /\ DubRaised =>
           /\ in_except
           /\ fallback_runs = IF use_simple_fallback THEN 2 ELSE 1
    /\ (dub_pc = "done" /\ in_except /\ ~DubRaised) =>
           /\ dub_result.outcome = "returned"
           /\ dub_result.audio \in {"dubbed", "combined", "silence"}
    /\ dub_pc = "done" => dub_result.outcome \in {"returned", "raised"}

\* The full pipeline failed and the fallback returned a track built from
\* synthesized speech.
C25_Witness ==
    /\ dub_pc = "done"
    /\ FullPipelineFailed
    /\ dub_result.outcome = "returned"
    /\ dub_result.audio = "dubbed"
    /\ synth_calls # <<>>

\* C29: in one call of dub_with_ai_analysis the simple fallback pipeline is
\* started at most once.
C29_FallbackStartedAtMostOnce == fallback_runs <= 1

\* ------------------------------------------------------------------------
\* Greedy voice assignment
\* ------------------------------------------------------------------------

\* The catalog voices that declare the target language.
EligibleVoices ==
    {available_voices[k] : k \in {j \in 1..Len(available_voices) :
        available_voices[j].voice_id \in EligibleIds}}

\* The voices given to the speakers before the i-th one.
GivenBefore(i) ==
    {match_result.mapping[voice_profiles[j].speaker_id].voice_id :
        j \in 1..(i - 1)}

\* The highest score the i-th speaker's profile reaches on a set of voices.
BestScore(i, voices) ==
    LET scores == {VoiceMatchScore(voice_profiles[i].profile, v) : v \in voices}
    IN  CHOOSE x \in scores : \A y \in scores : y <= x

\* C26: in speaker order, each speaker gets an eligible voice that no earlier
\* speaker was given and that scores highest among those voices; when every
\* eligible voice has been given, the speaker gets an eligible voice of the
\* highest score of all (the voices given so far stay the same set). The
\* recorded match_score is the score of the voice given.
C26_GreedyAssignment ==
    (match_pc = "returned" /\ EligibleIds # {}) =>
        \A i \in 1..Len(voice_profiles) :
            LET given == match_result.mapping[voice_profiles[i].speaker_id]
                free == {v \in EligibleVoices :
                            v.voice_id \notin GivenBefore(i)}
                voice == CHOOSE v \in EligibleVoices :
                             v.voice_id = given.voice_id
            IN  /\ given.voice_id \in EligibleIds
                /\ given.match_score
                       = VoiceMatchScore(voice_profiles[i].profile, voice)
                /\ IF free # {}
                   THEN /\ voice \in free
                        /\ given.match_score = BestScore(i, free)
                   ELSE /\ given.match_score = BestScore(i, EligibleVoices)
                        /\ GivenBefore(i + 1) = GivenBefore(i)

\* Three speakers and two eligible voices: the third speaker reuses a voice,
\* and the two voices score differently for it and for the first speaker.
C26_Witness ==
    /\ match_pc = "returned"
    /\ Len(voice_profiles) = 3
    /\ Cardinality(EligibleIds) = 2
    /\ \E v, w \in EligibleVoices :
           /\ VoiceMatchScore(voice_profiles[3].profile, v)
                  # VoiceMatchScore(voice_profiles[3].profile, w)
           /\ VoiceMatchScore(voice_profiles[1].profile, v)
                  < VoiceMatchScore(voice_profiles[1].profile, w)
    /\ match_result.mapping[voice_profiles[3].speaker_id].voice_id
           \in GivenBefore(3)

\* ------------------------------------------------------------------------
\* The sequential combiner
\* ------------------------------------------------------------------------

\* C27: in the track that TimingAwareDubber._combine_audio_segments returns,
\* every clip begins at or after its original start.
C27_SequentialOnsetsNotEarly ==
    (tad_combine_pc = "returned" /\ tad_audio_segments # <<>>) =>
        \A id \in 1..Len(tad_audio_segments) :
            /\ PieceOf(tad_combined_audio, id) # 0
            /\ Onset(tad_combined_audio, id) >= tad_audio_segments[id].start

\* ------------------------------------------------------------------------
\* The cache key
\* ------------------------------------------------------------------------

StageOrder ==
    <<"initialized", "downloading", "extracting_audio", "detecting_gender",
      "transcribing", "translating", "generating_speech", "synchronizing",
      "completed">>

StageRank(status) == CHOOSE r \in DOMAIN StageOrder : StageOrder[r] = status

Terminal(status) == status \in {"completed", "failed"}

\* One step of a job's record: the status stays, moves to a later stage, or
\* jumps to failed from a stage that is not terminal; progress does not
\* decrease.
JobMovesForward(j) ==
    jobs[j] # NoJob =>
        /\ jobs'[j] # NoJob
        /\ \/ jobs'[j].status = jobs[j].status
           \/ /\ ~Terminal(jobs[j].status)
              /\ jobs'[j].status = "failed"
           \/ /\ ~Terminal(jobs[j].status)
              /\ jobs'[j].status # "failed"
              /\ StageRank(jobs'[j].status) > StageRank(jobs[j].status)
        /\ jobs'[j].progress >= jobs[j].progress

\* What a job's record holds once its task is over.
JobEnded(j) ==
    \/ /\ jobs[j].status = "completed"
       /\ jobs[j].progress = 100
       /\ jobs[j].output_path # NoValue
       /\ jobs[j].error = NoValue
    \/ /\ jobs[j].status = "failed"
       /\ jobs[j].error # NoValue
       /\ jobs[j].output_path = NoValue

====
